---------------------------- MODULE Spec2Model ----------------------------
(***************************************************************************)
(* Multi-tariff subscription lifecycle of the bot: the Subscription        *)
(* repository (one row per (user, tariff)), the confirm_purchase commit    *)
(* step of the purchase wizard, and the contest attempt service.           *)
(*                                                                         *)
(* Time is counted in whole days; money in kopeks; traffic in GB.          *)
(***************************************************************************)
EXTENDS Integers, Sequences, FiniteSets, TLC

(***************************************************************************)
(* Bounds of the model and configuration values (app.config is deployment  *)
(* configuration, read only by the code modelled here).                    *)
(***************************************************************************)
MaxNow == 1                  \* the clock advances at most to this day
MaxPurchases == 1            \* confirm_purchase invocations per caller
MaxCrudOps == 1              \* repository operations per caller
MaxWinners == 2              \* the largest max_winners of a round
MaxContestCalls == 2         \* attempt calls per contest user
MaxPanelCalls == 2           \* calls of the panel synchronisation
MaxPanelUsers == 4           \* UUIDs the panel issues
MaxLen == 3                  \* length of the strings normalize_tariff_code gets
MaxDeviceCalls == 2          \* device handler calls per update slot
MaxPrizeLen == 2             \* characters of a template's prize_value
MaxDepth == 2                \* nesting of use_tariff_code blocks
DEFAULT_DEVICE_LIMIT == 1    \* settings.DEFAULT_DEVICE_LIMIT
PRICE_PER_DEVICE == 5000     \* settings.PRICE_PER_DEVICE
TrialRemainingDays == 3      \* days an unexpired trial still has at day 0
PaidRemainingDays == 10      \* days an unexpired paid row still has at day 0

None == "none"
Unset == 0 - 1               \* an integer setting that is None
UserId == "u1"
STANDARD == "standard"
WHITE == "white"
Tariffs == {STANDARD, WHITE}

Max(a, b) == IF a >= b THEN a ELSE b
Abs(a) == IF a >= 0 THEN a ELSE -a

\* datetime(2099, 1, 1) as a day number (days since 1970-01-01)
WhiteUnlimitedEndDate == 47117

\* app.config.PERIOD_PRICES: period in days -> price in kopeks
PERIOD_PRICES == (30 :> 9900) @@ (90 :> 26900)
\* settings.get_traffic_price: package in GB (0 = unlimited) -> price
TrafficPrice == (0 :> 30000) @@ (20 :> 6000)
\* the squads statically configured for each tariff
TariffSquads == (STANDARD :> {"sq_std"}) @@ (WHITE :> {"sq_white"})

\* app.utils.pricing_utils.apply_percentage_discount -> <<discounted, discount>>
apply_percentage_discount(amount, percent) ==
    IF amount <= 0 \/ percent <= 0
    THEN <<amount, 0>>
    ELSE LET p == IF percent > 100 THEN 100 ELSE percent
             discount == (amount * p) \div 100
         IN  <<amount - discount, discount>>

\* app.utils.pricing_utils.calculate_months_from_days
calculate_months_from_days(days) == Max(1, (days + 15) \div 30)

VARIABLES
    now,            \* datetime.utcnow(), in days
    balance,        \* User.balance_kopeks
    promo_offer,    \* the user's current promo-offer discount percent
    promo_group,    \* the user's promo-group discount percents
    gate,           \* "ok" | "blacklisted" | "restricted"
    settings,       \* the settings the purchase reads
    subscriptions,  \* the subscriptions table: a set of rows
    next_id,        \* the next primary key of the subscriptions table
    transactions,   \* the ledger: a sequence of Transaction rows
    cart,           \* user_cart_service: the saved cart of the user
    checkout_draft, \* subscription_checkout_service: the checkout draft
    fsm_data,       \* FSMContext data of the user (the session draft)
    fsm_state,      \* FSMContext state of the user
    cp,             \* confirm_purchase invocations: call -> frame
    active,         \* the callers that run in this behaviour
    purchases,      \* call -> confirm_purchase invocations started so far
    squad_users,    \* ServerSquad.current_users: squad -> counter
    crud,           \* repository invocations: caller -> frame
    round,          \* the ContestRound row and the holder of its row lock
    attempts,       \* the ContestAttempt rows of the round: user -> row
    ca,             \* contest attempt invocations: user -> frame
    panel,          \* the panel's users (RemnaWave), a set of records
    next_uuid,      \* how many UUIDs the panel has issued
    user_row,       \* the User row: remnawave_uuid and the base username
    links,          \* row id -> remnawave_short_uuid and subscription_url
    sync,           \* the last call of the panel synchronisation
    scan,           \* sync_users_from_panel: the scan of the panel's users
    push,           \* sync_users_to_panel: the tasks of the batch
    dev_patch,      \* the devices module's two functions and the device calls
    ui,             \* the wizard's message, alert and last handled callback
    tariff_ctx      \* the tariff context: ambient value and open blocks per task

vars == <<now, balance, promo_offer, promo_group, gate, settings,
          subscriptions, next_id, transactions, cart, checkout_draft,
          fsm_data, fsm_state, cp, active, purchases, squad_users, crud,
          round, attempts, ca, panel, next_uuid, user_row, links, sync,
          scan, push, dev_patch, ui, tariff_ctx>>

tariffVars == <<tariff_ctx>>

panelVars == <<panel, next_uuid, user_row, links, sync>>

contestVars == <<round, attempts, ca>>

syncVars == <<scan, push, dev_patch, ui>>

ConfirmCalls == {"c1", "c2"}
CrudCallers == {"k1", "k2"}


(***************************************************************************)
(* Subscription rows.                                                      *)
(***************************************************************************)
Row(id, user, tariff, status, trial, start, end, limit, purchased, devices, squads, used, uuid) ==
    [id |-> id, user_id |-> user, tariff_code |-> tariff, status |-> status,
     is_trial |-> trial, start_date |-> start, end_date |-> end,
     traffic_limit_gb |-> limit, purchased_traffic_gb |-> purchased,
     device_limit |-> devices, connected_squads |-> squads,
     traffic_used_gb |-> used, remnawave_uuid |-> uuid]

NoRow == Row(0, None, None, None, FALSE, 0, 0, 0, 0, 0, {}, 0, None)

RowsOf(rows, user, tariff) ==
    {r \in rows : r.user_id = user /\ r.tariff_code = tariff}

\* the row with the largest id of a non-empty set (ORDER BY created_at DESC)
Latest(rows) == CHOOSE r \in rows : \A q \in rows : q.id <= r.id

\* a table without the unique index: every INSERT is accepted
UniqueViolation_NoIndex(rows, user, tariff) == FALSE

\* the database's unique index uq_subscriptions_user_id_tariff_code: an
\* INSERT of a second row for the pair raises IntegrityError
UniqueViolation(rows, user, tariff) == RowsOf(rows, user, tariff) # {}

\* app.database.crud.subscription.check_and_update_subscription_status:
\* an active row whose end_date has passed is demoted to expired
check_and_update_subscription_status(r, t) ==
    IF r.status = "active" /\ r.end_date <= t
    THEN [r EXCEPT !.status = "expired"]
    ELSE r

\* the table after get_subscription_by_user_id(user, tariff) at time t
TableAfterGet(rows, user, tariff, t) ==
    IF RowsOf(rows, user, tariff) = {}
    THEN rows
    ELSE LET r == Latest(RowsOf(rows, user, tariff))
         IN  (rows \ {r}) \cup {check_and_update_subscription_status(r, t)}

\* what get_subscription_by_user_id(user, tariff) returns at time t
get_subscription_by_user_id(rows, user, tariff, t) ==
    IF RowsOf(rows, user, tariff) = {}
    THEN NoRow
    ELSE check_and_update_subscription_status(
             Latest(RowsOf(rows, user, tariff)), t)

\* UPDATE of the row with r's primary key (nothing when it was deleted)
WriteRow(rows, r) ==
    {IF q.id = r.id THEN r ELSE q : q \in rows}

\* create_paid_subscription's new row
create_paid_subscription(id, user, tariff, t, duration_days, traffic_limit_gb, device_limit, connected_squads) ==
    Row(id, user, tariff, "active", FALSE, t, t + duration_days,
        traffic_limit_gb, 0, device_limit, connected_squads, 0, None)

(***************************************************************************)
(* The session draft (FSM data) written by the order summary.              *)
(***************************************************************************)
EmptyData ==
    [tariff_code |-> None, period_days |-> 0, months_in_period |-> 0,
     countries |-> {}, devices |-> 0, devices_price_per_month |-> 0,
     devices_discount_percent |-> 0,
     devices_discounted_price_per_month |-> 0, total_devices_price |-> 0,
     final_traffic_gb |-> 0, traffic_price_per_month |-> 0,
     traffic_discount_percent |-> 0,
     traffic_discounted_price_per_month |-> 0, total_traffic_price |-> 0,
     servers_discounted_price_per_month |-> 0, base_price |-> 0,
     total_price |-> 0, promo_offer_discount_value |-> 0,
     total_price_before_promo_offer |-> 0]

\* app.handlers.subscription.common._apply_discount_to_monthly_component
_apply_discount_to_monthly_component(price_per_month, percent, months) ==
    LET d == apply_percentage_discount(price_per_month, percent)
    IN  [discounted_per_month |-> d[1], discount_percent |-> percent,
         discount_total |-> d[2] * months, total |-> d[1] * months]

\* the device count both the summary and the confirmation settle on
DevicesSelected(tariff, devices, st) ==
    IF tariff = WHITE THEN 0
    ELSE IF st.devices_selection_enabled THEN devices
    ELSE IF st.forced_disabled_limit = Unset THEN DEFAULT_DEVICE_LIMIT
    ELSE st.forced_disabled_limit

\* a price list that charges nothing for the period
BasePrice_Free(tariff, period, pg) == <<0, 0>>

\* _prepare_subscription_summary: <<base_price, base_discount_total>>
BasePrice(tariff, period, pg) ==
    IF tariff = WHITE THEN <<0, 0>>
    ELSE apply_percentage_discount(PERIOD_PRICES[period], pg.period)

\* app.utils.pricing_utils.validate_pricing_calculation
validate_pricing_calculation(base_price, monthly_additions, months, total) ==
    base_price + monthly_additions * months = total

\* _prepare_subscription_summary: the total before the promo offer
OriginalTotal(d) ==
    IF d.promo_offer_discount_value > 0 THEN d.total_price_before_promo_offer
    ELSE d.total_price

\* _prepare_subscription_summary: is_valid for the summary it computed
SummaryIsValid(d) ==
    validate_pricing_calculation(
        d.base_price,
        d.traffic_discounted_price_per_month
            + d.servers_discounted_price_per_month
            + d.devices_discounted_price_per_month,
        d.months_in_period, OriginalTotal(d))

\* _prepare_subscription_summary: the summary_data for the wizard's choices
_prepare_subscription_summary(tariff, period, traffic, devices, st, pg, offer) ==
    LET months == IF tariff = WHITE THEN 1
                  ELSE calculate_months_from_days(period)
        base == BasePrice(tariff, period, pg)
        traffic_gb == IF tariff = STANDARD THEN 0 ELSE traffic
        traffic_ppm == IF tariff = STANDARD THEN 0 ELSE TrafficPrice[traffic_gb]
        traffic_pct == IF tariff = STANDARD THEN 0 ELSE pg.traffic
        tc == _apply_discount_to_monthly_component(traffic_ppm, traffic_pct, months)
        devices_selected == DevicesSelected(tariff, devices, st)
        additional == Max(0, devices_selected - DEFAULT_DEVICE_LIMIT)
        devices_ppm == IF tariff = WHITE THEN 0 ELSE additional * PRICE_PER_DEVICE
        devices_pct == IF tariff = WHITE THEN 0 ELSE pg.devices
        dc == _apply_discount_to_monthly_component(devices_ppm, devices_pct, months)
        total == base[1] + tc.total + 0 + dc.total
        po == IF total <= 0 \/ offer <= 0 THEN <<total, 0>>
              ELSE apply_percentage_discount(total, offer)
    IN  [tariff_code |-> tariff, period_days |-> period,
         months_in_period |-> months, countries |-> TariffSquads[tariff],
         devices |-> devices_selected,
         devices_price_per_month |-> devices_ppm,
         devices_discount_percent |-> dc.discount_percent,
         devices_discounted_price_per_month |-> dc.discounted_per_month,
         total_devices_price |-> dc.total,
         final_traffic_gb |-> traffic_gb,
         traffic_price_per_month |-> traffic_ppm,
         traffic_discount_percent |-> tc.discount_percent,
         traffic_discounted_price_per_month |-> tc.discounted_per_month,
         total_traffic_price |-> tc.total,
         servers_discounted_price_per_month |-> 0,
         base_price |-> base[1],
         total_price |-> IF po[2] > 0 THEN po[1] ELSE total,
         promo_offer_discount_value |-> po[2],
         total_price_before_promo_offer |-> IF po[2] > 0 THEN total ELSE 0]

(***************************************************************************)
(* confirm_purchase: the server-side recomputation of the price.           *)
(***************************************************************************)
PriceToleranceKopeks == 500

\* calculated_total_before_promo, final_price and promo_offer_discount_value
RecomputePrice(data, st, pg, offer) ==
    LET tariff == data.tariff_code
        months == IF tariff = WHITE
                  THEN (IF data.months_in_period = 0 THEN 1
                        ELSE data.months_in_period)
                  ELSE data.months_in_period
        base == IF tariff = WHITE THEN <<0, 0>>
                ELSE apply_percentage_discount(PERIOD_PRICES[data.period_days],
                                               pg.period)
        devices_selected == DevicesSelected(tariff, data.devices, st)
        additional == Max(0, devices_selected - DEFAULT_DEVICE_LIMIT)
        devices_dpm ==
            IF tariff = STANDARD /\ st.devices_selection_enabled /\ additional > 0
            THEN data.devices_discounted_price_per_month
            ELSE 0
        traffic_dpm == IF tariff = STANDARD THEN 0
                       ELSE data.traffic_discounted_price_per_month
        additions == traffic_dpm + data.servers_discounted_price_per_month
                     + devices_dpm
        before_promo == base[1] + additions * months
        po == IF offer > 0 THEN apply_percentage_discount(before_promo, offer)
              ELSE <<before_promo, 0>>
    IN  [before_promo |-> before_promo, final_price |-> po[1],
         promo_value |-> po[2]]

MaxAllowedDifference_FivePercentOnly(final_price) ==
    (final_price * 5) \div 100

\* max(500, int(final_price * 0.05))
MaxAllowedDifference(final_price) ==
    Max(PriceToleranceKopeks, (final_price * 5) \div 100)

\* the drift check: TRUE when the order must be started over
PriceDrifted(final_price, cached_total_price) ==
    Abs(final_price - cached_total_price) > MaxAllowedDifference(final_price)

MissingKopeks_WholePrice(final_price, bal) == final_price

\* missing_kopeks = final_price - db_user.balance_kopeks
MissingKopeks(final_price, bal) == final_price - bal

Restricted_Ignored(g) == FALSE

\* getattr(db_user, "restriction_subscription", False)
Restricted(g) == g = "restricted"

\* blacklist_service.is_user_blacklisted(...)
Blacklisted(g) == g = "blacklisted"

WhiteTrafficLimit_Overwrite(current_limit, traffic_gb) ==
    IF traffic_gb = 0 THEN 0 ELSE traffic_gb

\* the white row's traffic_limit_gb after a package of traffic_gb
WhiteTrafficLimit(current_limit, traffic_gb) ==
    IF traffic_gb = 0 THEN 0
    ELSE IF current_limit # 0 THEN current_limit + traffic_gb
    ELSE current_limit

ExtensionBaseDate_Now(end_date, t) == t

\* extension_base_date: the later of the row's end_date and current_time
ExtensionBaseDate(end_date, t) == IF end_date > t THEN end_date ELSE t

\* selected_devices of the commit step (Unset: leave device_limit alone)
SelectedDevices(data, st) ==
    IF data.tariff_code = WHITE THEN 0
    ELSE IF st.devices_selection_enabled
         THEN DevicesSelected(data.tariff_code, data.devices, st)
         ELSE st.forced_disabled_limit

\* the existing row as confirm_purchase rewrites it before its commit
MergePurchase(ex, data, st, t) ==
    LET tariff == data.tariff_code
        bonus == IF ex.is_trial /\ st.TRIAL_ADD_REMAINING_DAYS_TO_PAID
                    /\ ex.end_date - t > 0
                 THEN ex.end_date - t ELSE 0
        n == data.final_traffic_gb
        limit == IF tariff = WHITE
                 THEN WhiteTrafficLimit(ex.traffic_limit_gb, n)
                 ELSE n
        purchased == IF tariff = WHITE
                     THEN (IF n = 0 THEN 0 ELSE ex.purchased_traffic_gb + n)
                     ELSE ex.purchased_traffic_gb
        sel == SelectedDevices(data, st)
        base_date == ExtensionBaseDate(ex.end_date, t)
    IN  [ex EXCEPT
           !.is_trial = FALSE,
           !.status = "active",
           !.traffic_limit_gb = limit,
           !.purchased_traffic_gb = purchased,
           !.device_limit = IF sel # Unset THEN sel ELSE @,
           !.connected_squads = data.countries,
           !.start_date = IF ex.end_date > t THEN @ ELSE t,
           !.end_date = IF tariff = WHITE THEN WhiteUnlimitedEndDate
                        ELSE base_date + data.period_days + bonus,
           !.traffic_used_gb = IF tariff # WHITE THEN 0 ELSE @]

\* the row confirm_purchase creates when the pair has none
NewPurchaseRow(id, data, st, t) ==
    LET tariff == data.tariff_code
        sel == SelectedDevices(data, st)
        resolved == IF sel # Unset THEN sel ELSE DEFAULT_DEVICE_LIMIT
        r == create_paid_subscription(id, UserId, tariff, t, data.period_days,
                                      data.final_traffic_gb, resolved,
                                      data.countries)
    IN  IF tariff = WHITE
        THEN [r EXCEPT !.end_date = WhiteUnlimitedEndDate,
                       !.purchased_traffic_gb = data.final_traffic_gb]
        ELSE r

\* app.database.crud.user.subtract_user_balance: FALSE when the balance does
\* not cover the amount, else the amount is taken and committed
SubtractOk(bal, amount) == bal >= amount

(***************************************************************************)
(* Initial states.                                                         *)
(***************************************************************************)
NoCart == [saved_cart |-> FALSE, user_id |-> None, missing_amount |-> 0,
           data |-> EmptyData]

IdleFrame ==
    [pc |-> "idle", result |-> None, data |-> EmptyData, final_price |-> 0,
     promo_value |-> 0, balance_before |-> 0, deducted |-> 0,
     existing |-> NoRow, current_time |-> 0, sub_id |-> 0, granted |-> FALSE,
     panel_calls |-> 0, panel_ok |-> FALSE, tx_before |-> 0,
     raised |-> FALSE, completed |-> FALSE, topup |-> 0,
     retry_reset_traffic |-> FALSE]

IdleCrud == [pc |-> "idle", op |-> None, tariff_code |-> None,
             seen |-> NoRow, current_time |-> 0, result |-> None, ops |-> 0,
             period_days |-> Unset]

\* rows the repository and earlier purchases leave behind, as of day 0
StdTrialActive ==
    Row(1, UserId, STANDARD, "active", TRUE, 0 - 1, TrialRemainingDays,
        10, 0, DEFAULT_DEVICE_LIMIT, {"sq_std"}, 2, None)
StdTrialExpired ==
    Row(1, UserId, STANDARD, "expired", TRUE, 0 - 4, 0 - 1,
        10, 0, DEFAULT_DEVICE_LIMIT, {"sq_std"}, 2, None)
StdPaidActive ==
    Row(1, UserId, STANDARD, "active", FALSE, 0 - 20, PaidRemainingDays,
        0, 0, DEFAULT_DEVICE_LIMIT, {"sq_std"}, 2, "pu_standard")
StdPaidExpired ==
    Row(1, UserId, STANDARD, "expired", FALSE, 0 - 40, 0 - 5,
        0, 0, DEFAULT_DEVICE_LIMIT, {"sq_std"}, 2, "pu_standard")
WhiteLimited ==
    Row(2, UserId, WHITE, "active", FALSE, 0 - 7, WhiteUnlimitedEndDate,
        50, 10, 0, {"sq_white"}, 5, "pu_white")
WhiteUnlimited ==
    Row(2, UserId, WHITE, "active", FALSE, 0 - 7, WhiteUnlimitedEndDate,
        0, 0, 0, {"sq_white"}, 5, "pu_white")

InitialTables ==
    {{}, {StdTrialActive}, {StdTrialExpired}, {StdPaidActive, WhiteLimited},
     {StdPaidExpired, WhiteUnlimited}, {WhiteLimited}}

SettingsProfiles ==
    {[TRIAL_ADD_REMAINING_DAYS_TO_PAID |-> t, devices_selection_enabled |-> d[1],
      forced_disabled_limit |-> d[2], RESET_TRAFFIC_ON_PAYMENT |-> FALSE, CONNECT_BUTTON_MODE |-> "guide", MINIAPP_CUSTOM_URL |-> None] :
        t \in BOOLEAN, d \in {<<TRUE, Unset>>, <<FALSE, 3>>}}

PromoGroups == {[period |-> 0, traffic |-> 0, devices |-> 10]}
PromoOffers == {0, 4, 6}
Balances == {5000, 100000}
Gates == {"ok", "blacklisted", "restricted"}

\* no synchronisation from the panel runs; scan.users is the User table:
\* which Telegram ids have a User row, and its remnawave_uuid
TelegramIds == {"tg1", "tg2"}
NoUser == [exists |-> FALSE, remnawave_uuid |-> None]
NoScanStats == [created |-> 0, updated |-> 0, errors |-> 0, deleted |-> 0]
NoFailures == [user |-> 0, no_user |-> 0, swallowed |-> 0, batch |-> 0, final |-> 0]
IdleScan ==
    [pc |-> "idle", sync_type |-> None, panel_users |-> <<>>, i |-> 0,
     stats |-> NoScanStats, users |-> [tg \in TelegramIds |-> NoUser],
     committed |-> [rows |-> {}, links |-> <<>>, users |-> <<>>],
     processed |-> {}, failures |-> NoFailures,
     cleanup |-> [ran |-> FALSE, rows |-> {}]]

\* no device handler runs: the devices module holds its original functions
DeviceCalls == {"h1", "h2"}
IdleDeviceCall ==
    [pc |-> "idle", handler |-> None, runs |-> 0, result |-> None,
     original_calc |-> None, original_remaining |-> None,
     db_user |-> [subscription |-> 0, remnawave_uuid |-> None],
     before |-> [subscription |-> 0, remnawave_uuid |-> None],
     original_subscription |-> 0, original_uuid |-> None]
IdleDevicesPatch ==
    [calculate_prorated_price |-> "calculate_prorated_price",
     get_remaining_months |-> "get_remaining_months",
     call |-> [h \in DeviceCalls |-> IdleDeviceCall]]

\* no wizard message is shown and no wizard callback was handled
IdleUi ==
    [screen |-> None, alert |-> None, handler |-> None, arg |-> None,
     tick |-> 0]

\* no synchronisation to the panel runs
IdlePush ==
    [pc |-> "idle", valid |-> {}, semaphore |-> 0, task |-> <<>>,
     runs |-> <<>>, result |-> <<>>, peak |-> 0,
     stats |-> [created |-> 0, updated |-> 0, errors |-> 0],
     commit |-> [done |-> FALSE, unfinished |-> {}]]

InitCommon ==
    /\ scan = IdleScan
    /\ push = IdlePush
    /\ dev_patch = IdleDevicesPatch
    /\ ui = IdleUi
    /\ now = 0
    /\ next_id = 3
    /\ transactions = <<>>
    /\ cart = NoCart
    /\ checkout_draft = EmptyData
    /\ fsm_data = EmptyData
    /\ fsm_state = None
    /\ cp = [c \in ConfirmCalls |-> IdleFrame]
    /\ squad_users = [q \in {"sq_std", "sq_white"} |-> 0]
    /\ crud = [k \in CrudCallers |-> IdleCrud]

\* no handler runs under a tariff context
Handlers == {"h1", "h2"}
DEFAULT_TARIFF_CODE == STANDARD
PyNone == [none |-> TRUE, chars |-> <<>>]
Str(chars) == [none |-> FALSE, chars |-> chars]
NoProbe ==
    [task |-> None, value |-> PyNone, ambient |-> None, own |-> None,
     other_white |-> FALSE, result |-> None]
NoExit == [task |-> None, raised |-> FALSE]

TariffIdle ==
    tariff_ctx = [ambient |-> [h \in Handlers |-> DEFAULT_TARIFF_CODE],
          stack |-> [h \in Handlers |-> <<>>],
          probe |-> NoProbe, exit |-> NoExit]

\* no panel synchronisation runs
TelegramId == "tg1"
RowIds == 1..2
UuidOf(n) == "pu" \o ToString(n)

\* a username: its stem and whether it ends with the white suffix
Username(stem, suffixed) == [stem |-> stem, suffixed |-> suffixed]

NoPanelUser ==
    [uuid |-> None, username |-> Username(None, FALSE), telegram_id |-> None,
     tag |-> None, status |-> None]
NoLinks == [remnawave_short_uuid |-> None, subscription_url |-> ""]
LinksOf(uuid) ==
    [remnawave_short_uuid |-> "short_" \o uuid,
     subscription_url |-> "url_" \o uuid]
NoStats == [created |-> 0, updated |-> 0, errors |-> 0]
IdleSync ==
    [n |-> 0, op |-> None, raised |-> FALSE, tariff |-> None,
     reachable |-> TRUE,
     result |-> None,
     panel_op |-> None, target |-> None, target2 |-> None, stats |-> NoStats,
     before |-> [rows |-> {}, user_row |-> None, links |-> None],
     panel_before |-> {},
     prev |-> [op |-> None, tariff |-> None, result |-> None]]

PanelIdle ==
    /\ panel = {}
    /\ next_uuid = 0
    /\ user_row = [remnawave_uuid |-> None,
                   base_username |-> Username("u", FALSE)]
    /\ links = [i \in RowIds |-> NoLinks]
    /\ sync = IdleSync

\* no contest runs
ContestUsers == {"p1", "p2", "p3"}
NoAttempt == [exists |-> FALSE, answer |-> None, is_winner |-> FALSE]
IdleAttemptCall ==
    [pc |-> "idle", answer |-> None, is_winner |-> FALSE, winners_count |-> 0,
     calls |-> 0, result |-> None, prizes |-> 0]

ContestIdle ==
    /\ round = [kind |-> "button", max_winners |-> 1, winners_count |-> 0,
                lock |-> None, prize_value |-> <<"5">>]
    /\ attempts = [u \in ContestUsers |-> NoAttempt]
    /\ ca = [u \in ContestUsers |-> IdleAttemptCall]

Init ==
    /\ InitCommon
    /\ TariffIdle
    /\ PanelIdle
    /\ ContestIdle
    /\ purchases = [c \in ConfirmCalls |-> 0]
    /\ balance \in Balances
    /\ promo_offer \in PromoOffers
    /\ promo_group \in PromoGroups
    /\ gate \in Gates
    /\ settings \in SettingsProfiles
    /\ subscriptions \in InitialTables
    /\ active = {"c1"}

\* the same purchases on an installation that resets traffic on payment
InitResetOnPayment ==
    /\ InitCommon
    /\ TariffIdle
    /\ PanelIdle
    /\ ContestIdle
    /\ purchases = [c \in ConfirmCalls |-> 0]
    /\ balance \in Balances
    /\ promo_offer \in PromoOffers
    /\ promo_group \in PromoGroups
    /\ gate \in Gates
    /\ settings \in {[s EXCEPT !.RESET_TRAFFIC_ON_PAYMENT = TRUE] :
                        s \in SettingsProfiles}
    /\ subscriptions \in InitialTables
    /\ active = {"c1"}

(***************************************************************************)
(* The environment of the purchase: the clock, the wizard, the promo offer.*)
(***************************************************************************)
Tick ==
    /\ now < MaxNow
    /\ now' = now + 1
    /\ UNCHANGED <<balance, promo_offer, promo_group, gate, settings,
                   subscriptions, next_id, transactions, cart, checkout_draft,
                   fsm_data, fsm_state, cp, active, purchases, squad_users,
                   crud>>
    /\ UNCHANGED contestVars
    /\ UNCHANGED panelVars
    /\ UNCHANGED <<tariffVars, syncVars>>

\* the one-time promo offer runs out
PromoOfferExpires ==
    /\ promo_offer > 0
    /\ promo_offer' = 0
    /\ UNCHANGED <<now, balance, promo_group, gate, settings, subscriptions,
                   next_id, transactions, cart, checkout_draft, fsm_data,
                   fsm_state, cp, active, purchases, squad_users, crud>>
    /\ UNCHANGED contestVars
    /\ UNCHANGED panelVars
    /\ UNCHANGED <<tariffVars, syncVars>>

\* the wizard up to the order summary: select_tariff, select_period /
\* select_traffic, the device choice, then present_subscription_summary
PrepareSummary ==
    /\ fsm_data.tariff_code = None
    /\ \E c \in active \cap ConfirmCalls : purchases[c] < MaxPurchases
    /\ \E tariff \in Tariffs, period \in {30, 90}, traffic \in {0, 20},
          devices \in {DEFAULT_DEVICE_LIMIT, DEFAULT_DEVICE_LIMIT + 2} :
          /\ tariff = WHITE => period = 30 /\ devices = DEFAULT_DEVICE_LIMIT
          /\ tariff = STANDARD => traffic = 0
          /\ LET d == _prepare_subscription_summary(
                           tariff, IF tariff = WHITE THEN 0 ELSE period,
                           traffic, devices, settings, promo_group,
                           promo_offer)
             IN  IF SummaryIsValid(d)
                 THEN /\ fsm_data' = d
                      /\ fsm_state' = "confirming_purchase"
                 ELSE /\ fsm_data' = fsm_data
                      /\ fsm_state' = "ValueError"
    /\ UNCHANGED <<now, balance, promo_offer, promo_group, gate, settings,
                   subscriptions, next_id, transactions, cart, checkout_draft,
                   cp, active, purchases, squad_users, crud>>
    /\ UNCHANGED contestVars
    /\ UNCHANGED panelVars
    /\ UNCHANGED <<tariffVars, syncVars>>

\* the users the summary is priced for: promo groups with and without
\* discounts, with and without a promo offer
SummaryPromoGroups ==
    {[period |-> p, traffic |-> t, devices |-> d] :
        p \in {0, 15}, t \in {0, 33}, d \in {0, 10}}

InitSummary ==
    /\ InitCommon
    /\ TariffIdle
    /\ PanelIdle
    /\ ContestIdle
    /\ purchases = [c \in ConfirmCalls |-> 0]
    /\ balance = 100000
    /\ promo_offer \in PromoOffers
    /\ promo_group \in SummaryPromoGroups
    /\ gate = "ok"
    /\ settings \in SettingsProfiles
    /\ subscriptions = {}
    /\ active = {"c1"}

NextSummary == PrepareSummary

SpecSummary == InitSummary /\ [][NextSummary]_vars

(***************************************************************************)
(* confirm_purchase, one action per stretch between its awaits.            *)
(***************************************************************************)
Finish(c, result) == [cp[c] EXCEPT !.pc = "done", !.result = result]

\* the blacklist and restriction checks, the read of the session draft and
\* the save of the checkout draft
ConfirmGate(c) ==
    /\ c \in active
    /\ cp[c].pc \in {"idle", "done"}
    /\ purchases[c] < MaxPurchases
    /\ purchases' = [purchases EXCEPT ![c] = @ + 1]
    /\ IF Blacklisted(gate)
       THEN /\ cp' = [cp EXCEPT ![c] = [IdleFrame EXCEPT !.pc = "done",
                                            !.result = "blacklisted"]]
            /\ UNCHANGED checkout_draft
       ELSE IF Restricted(gate)
       THEN /\ cp' = [cp EXCEPT ![c] = [IdleFrame EXCEPT !.pc = "done",
                                            !.result = "restricted"]]
            /\ UNCHANGED checkout_draft
       ELSE IF fsm_data.tariff_code = None
       THEN /\ cp' = [cp EXCEPT ![c] = [IdleFrame EXCEPT !.pc = "done",
                                            !.result = "original"]]
            /\ UNCHANGED checkout_draft
       ELSE /\ checkout_draft' = fsm_data
            /\ cp' = [cp EXCEPT ![c] = [IdleFrame EXCEPT
                          !.pc = "price", !.data = fsm_data,
                          !.tx_before = Len(transactions)]]
    /\ UNCHANGED <<now, balance, promo_offer, promo_group, gate, settings,
                   subscriptions, next_id, transactions, cart, fsm_data,
                   fsm_state, active, squad_users, crud>>
    /\ UNCHANGED contestVars
    /\ UNCHANGED panelVars
    /\ UNCHANGED <<tariffVars, syncVars>>

\* the recomputation, the drift check, the balance check and
\* subtract_user_balance(db, db_user, final_price, ...,
\*                       consume_promo_offer = promo_offer_discount_value > 0),
\* which returns False when its own commit fails
ConfirmPrice(c) ==
    /\ cp[c].pc = "price"
    /\ LET f == cp[c]
           rp == RecomputePrice(f.data, settings, promo_group, promo_offer)
       IN  IF PriceDrifted(rp.final_price, f.data.total_price)
           THEN /\ cp' = [cp EXCEPT ![c] = [f EXCEPT
                             !.pc = "done", !.result = "price_changed",
                             !.final_price = rp.final_price]]
                /\ UNCHANGED <<cart, balance, promo_offer>>
           ELSE IF balance < rp.final_price
           THEN /\ cart' = [saved_cart |-> TRUE, user_id |-> UserId,
                            missing_amount |->
                                MissingKopeks(rp.final_price, balance),
                            data |-> f.data]
                /\ cp' = [cp EXCEPT ![c] = [f EXCEPT
                             !.pc = "done", !.result = "insufficient",
                             !.final_price = rp.final_price,
                             !.topup = MissingKopeks(rp.final_price,
                                                     balance)]]
                /\ UNCHANGED <<balance, promo_offer>>
           ELSE \E db_ok \in BOOLEAN :
                   IF db_ok /\ SubtractOk(balance, rp.final_price)
                   THEN /\ balance' = balance - rp.final_price
                        /\ promo_offer' = IF rp.promo_value > 0 THEN 0
                                          ELSE promo_offer
                        /\ cp' = [cp EXCEPT ![c] = [f EXCEPT
                                     !.pc = "get_existing",
                                     !.final_price = rp.final_price,
                                     !.promo_value = rp.promo_value,
                                     !.balance_before = balance,
                                     !.deducted = rp.final_price]]
                        /\ UNCHANGED cart
                   ELSE /\ cp' = [cp EXCEPT ![c] = [f EXCEPT
                                     !.pc = "done",
                                     !.result = "deduct_failed",
                                     !.final_price = rp.final_price,
                                     !.topup = MissingKopeks(rp.final_price,
                                                             balance)]]
                        /\ UNCHANGED <<cart, balance, promo_offer>>
    /\ UNCHANGED <<now, promo_group, gate, settings, subscriptions, next_id,
                   transactions, checkout_draft, fsm_data, fsm_state, active,
                   purchases, squad_users, crud>>
    /\ UNCHANGED contestVars
    /\ UNCHANGED panelVars
    /\ UNCHANGED <<tariffVars, syncVars>>

\* existing_subscription = get_subscription_by_user_id(...); current_time
ConfirmGetExisting(c) ==
    /\ cp[c].pc = "get_existing"
    /\ LET f == cp[c]
           tariff == f.data.tariff_code
       IN  /\ subscriptions' = TableAfterGet(subscriptions, UserId, tariff, now)
           /\ cp' = [cp EXCEPT ![c] = [f EXCEPT
                        !.pc = "mutate",
                        !.existing = get_subscription_by_user_id(
                                         subscriptions, UserId, tariff, now),
                        !.current_time = now]]
    /\ UNCHANGED <<now, balance, promo_offer, promo_group, gate, settings,
                   next_id, transactions, cart, checkout_draft, fsm_data,
                   fsm_state, active, purchases, squad_users, crud>>
    /\ UNCHANGED contestVars
    /\ UNCHANGED panelVars
    /\ UNCHANGED <<tariffVars, syncVars>>

\* the subscription mutation and its commit: the existing row is merged, or
\* create_paid_subscription inserts a new one (IntegrityError when the pair
\* has got a row meanwhile)
ConfirmMutate(c) ==
    /\ cp[c].pc = "mutate"
    /\ LET f == cp[c]
           tariff == f.data.tariff_code
       IN  IF f.existing.id # 0
           THEN /\ subscriptions' =
                       WriteRow(subscriptions,
                                MergePurchase(f.existing, f.data, settings,
                                              f.current_time))
                /\ cp' = [cp EXCEPT ![c] = [f EXCEPT
                             !.pc = "servers", !.sub_id = f.existing.id,
                             !.granted = TRUE]]
                /\ UNCHANGED next_id
           ELSE IF UniqueViolation(subscriptions, UserId, tariff)
           THEN /\ cp' = [cp EXCEPT ![c] = [f EXCEPT
                             !.pc = "except", !.raised = TRUE]]
                /\ UNCHANGED <<subscriptions, next_id>>
           ELSE /\ subscriptions' = subscriptions \cup
                       {NewPurchaseRow(next_id, f.data, settings, now)}
                /\ next_id' = next_id + 1
                /\ cp' = [cp EXCEPT ![c] = [f EXCEPT
                             !.pc = "servers", !.sub_id = next_id,
                             !.granted = TRUE]]
    /\ UNCHANGED <<now, balance, promo_offer, promo_group, gate, settings,
                   transactions, cart, checkout_draft, fsm_data, fsm_state,
                   active, purchases, squad_users, crud>>
    /\ UNCHANGED contestVars
    /\ UNCHANGED panelVars
    /\ UNCHANGED <<tariffVars, syncVars>>

\* mark_user_as_had_paid_subscription, add_subscription_servers,
\* add_user_to_servers for the selected squads
ConfirmServers(c) ==
    /\ cp[c].pc = "servers"
    /\ squad_users' = [q \in DOMAIN squad_users |->
                          IF q \in cp[c].data.countries
                          THEN squad_users[q] + 1 ELSE squad_users[q]]
    /\ cp' = [cp EXCEPT ![c].pc = "panel"]
    /\ UNCHANGED <<now, balance, promo_offer, promo_group, gate, settings,
                   subscriptions, next_id, transactions, cart, checkout_draft,
                   fsm_data, fsm_state, active, purchases, crud>>
    /\ UNCHANGED contestVars
    /\ UNCHANGED panelVars
    /\ UNCHANGED <<tariffVars, syncVars>>

\* the panel identity a successful create-or-update persists on the row
PanelSynced(rows, id) ==
    {IF r.id = id /\ r.remnawave_uuid = None
     THEN [r EXCEPT !.remnawave_uuid = "pu_" \o r.tariff_code]
     ELSE r : r \in rows}

\* update_remnawave_user / create_remnawave_user: the panel user or None
ConfirmPanel(c) ==
    /\ cp[c].pc = "panel"
    /\ \E ok \in BOOLEAN :
          /\ subscriptions' = IF ok THEN PanelSynced(subscriptions, cp[c].sub_id)
                              ELSE subscriptions
          /\ cp' = [cp EXCEPT ![c] = [cp[c] EXCEPT
                       !.pc = IF ok THEN "ledger" ELSE "retry",
                       !.panel_calls = 1, !.panel_ok = ok]]
    /\ UNCHANGED <<now, balance, promo_offer, promo_group, gate, settings,
                   next_id, transactions, cart, checkout_draft, fsm_data,
                   fsm_state, active, purchases, squad_users, crud>>
    /\ UNCHANGED contestVars
    /\ UNCHANGED panelVars
    /\ UNCHANGED <<tariffVars, syncVars>>

\* the reset_traffic argument of the second create_remnawave_user
RetryResetTraffic(st) == st.RESET_TRAFFIC_ON_PAYMENT

\* the second create_remnawave_user after a failed first call
ConfirmRetry(c) ==
    /\ cp[c].pc = "retry"
    /\ \E ok \in BOOLEAN :
          /\ subscriptions' = IF ok THEN PanelSynced(subscriptions, cp[c].sub_id)
                              ELSE subscriptions
          /\ cp' = [cp EXCEPT ![c] = [cp[c] EXCEPT
                       !.pc = "ledger", !.panel_calls = 2, !.panel_ok = ok,
                       !.retry_reset_traffic = RetryResetTraffic(settings)]]
    /\ UNCHANGED <<now, balance, promo_offer, promo_group, gate, settings,
                   next_id, transactions, cart, checkout_draft, fsm_data,
                   fsm_state, active, purchases, squad_users, crud>>
    /\ UNCHANGED contestVars
    /\ UNCHANGED panelVars
    /\ UNCHANGED <<tariffVars, syncVars>>

\* create_transaction(type = SUBSCRIPTION_PAYMENT, amount_kopeks = final_price)
ConfirmLedger(c) ==
    /\ cp[c].pc = "ledger"
    /\ transactions' = Append(transactions,
                              [type |-> "SUBSCRIPTION_PAYMENT",
                               user_id |-> UserId,
                               amount_kopeks |-> cp[c].final_price])
    /\ cp' = [cp EXCEPT ![c].pc = "message"]
    /\ UNCHANGED <<now, balance, promo_offer, promo_group, gate, settings,
                   subscriptions, next_id, cart, checkout_draft, fsm_data,
                   fsm_state, active, purchases, squad_users, crud>>
    /\ UNCHANGED contestVars
    /\ UNCHANGED panelVars
    /\ UNCHANGED <<tariffVars, syncVars>>

\* the admin notification (best effort) and the success message
\* the success message is built for the custom mini-app button without a URL
ConnectUrlMissing(f, st) ==
    /\ f.panel_ok
    /\ st.CONNECT_BUTTON_MODE = "miniapp_custom"
    /\ st.MINIAPP_CUSTOM_URL = None

\* with the custom mini-app mode and no MINIAPP_CUSTOM_URL the handler
\* answers with an alert and returns at once
ConfirmMessage(c) ==
    /\ cp[c].pc = "message"
    /\ cp' = IF ConnectUrlMissing(cp[c], settings)
             THEN [cp EXCEPT ![c] = Finish(c, "custom_url_not_set")]
             ELSE [cp EXCEPT ![c] = [cp[c] EXCEPT !.pc = "cleanup",
                                                  !.completed = TRUE]]
    /\ UNCHANGED <<now, balance, promo_offer, promo_group, gate, settings,
                   subscriptions, next_id, transactions, cart, checkout_draft,
                   fsm_data, fsm_state, active, purchases, squad_users, crud>>
    /\ UNCHANGED contestVars
    /\ UNCHANGED panelVars
    /\ UNCHANGED <<tariffVars, syncVars>>

\* clear_subscription_checkout_draft, delete_user_cart, state.clear()
ConfirmCleanup(c) ==
    /\ cp[c].pc = "cleanup"
    /\ checkout_draft' = EmptyData
    /\ cart' = NoCart
    /\ fsm_data' = EmptyData
    /\ fsm_state' = None
    /\ cp' = [cp EXCEPT ![c] = Finish(c, "purchased")]
    /\ UNCHANGED <<now, balance, promo_offer, promo_group, gate, settings,
                   subscriptions, next_id, transactions, active, purchases,
                   squad_users, crud>>
    /\ UNCHANGED contestVars
    /\ UNCHANGED panelVars
    /\ UNCHANGED <<tariffVars, syncVars>>

\* a database or Telegram call of the try block raises
RaisingSteps == {"get_existing", "mutate", "servers", "ledger", "message"}

ConfirmRaise(c) ==
    /\ cp[c].pc \in RaisingSteps
    /\ cp' = [cp EXCEPT ![c] = [cp[c] EXCEPT !.pc = "except",
                                             !.raised = TRUE]]
    /\ UNCHANGED <<now, balance, promo_offer, promo_group, gate, settings,
                   subscriptions, next_id, transactions, cart, checkout_draft,
                   fsm_data, fsm_state, active, purchases, squad_users, crud>>
    /\ UNCHANGED contestVars
    /\ UNCHANGED panelVars
    /\ UNCHANGED <<tariffVars, syncVars>>

\* except Exception: the generic error message; then state.clear()
ConfirmExcept(c) ==
    /\ cp[c].pc = "except"
    /\ fsm_data' = EmptyData
    /\ fsm_state' = None
    /\ cp' = [cp EXCEPT ![c] = Finish(c, "error")]
    /\ UNCHANGED <<now, balance, promo_offer, promo_group, gate, settings,
                   subscriptions, next_id, transactions, cart, checkout_draft,
                   active, purchases, squad_users, crud>>
    /\ UNCHANGED contestVars
    /\ UNCHANGED panelVars
    /\ UNCHANGED <<tariffVars, syncVars>>

(***************************************************************************)
(* The subscription repository, one action per stretch between its awaits. *)
(***************************************************************************)
purchaseState == <<balance, promo_offer, promo_group, gate, settings,
                   transactions, cart, checkout_draft, fsm_data, fsm_state,
                   cp, active, purchases>>

\* add_user_to_servers for the squads of a new row
add_user_to_servers(counters, squads) ==
    [q \in DOMAIN counters |->
        IF q \in squads THEN counters[q] + 1 ELSE counters[q]]

\* create_trial_subscription: the INSERT, its commit, then the squad counter
CrudCreateTrial(k) ==
    /\ k \in active
    /\ crud[k].pc = "idle"
    /\ crud[k].ops < MaxCrudOps
    /\ \E tariff \in Tariffs :
          IF UniqueViolation(subscriptions, UserId, tariff)
          THEN /\ crud' = [crud EXCEPT ![k] = [IdleCrud EXCEPT
                         !.ops = crud[k].ops + 1,
                              !.op = "create_trial", !.tariff_code = tariff,
                              !.result = "rejected"]]
               /\ UNCHANGED <<subscriptions, next_id, squad_users>>
          ELSE /\ subscriptions' = subscriptions \cup
                      {Row(next_id, UserId, tariff, "active", TRUE, now,
                           now + TrialRemainingDays, 10, 0,
                           DEFAULT_DEVICE_LIMIT, TariffSquads[tariff], 0,
                           None)}
               /\ next_id' = next_id + 1
               /\ squad_users' = add_user_to_servers(squad_users,
                                                     TariffSquads[tariff])
               /\ crud' = [crud EXCEPT ![k] = [IdleCrud EXCEPT
                         !.ops = crud[k].ops + 1,
                              !.op = "create_trial", !.tariff_code = tariff,
                              !.result = "created"]]
    /\ UNCHANGED <<now, purchaseState>>
    /\ UNCHANGED contestVars
    /\ UNCHANGED panelVars
    /\ UNCHANGED <<tariffVars, syncVars>>

\* create_paid_subscription(update_server_counters = False)
CrudCreatePaid(k) ==
    /\ k \in active
    /\ crud[k].pc = "idle"
    /\ crud[k].ops < MaxCrudOps
    /\ \E tariff \in Tariffs :
          IF UniqueViolation(subscriptions, UserId, tariff)
          THEN /\ crud' = [crud EXCEPT ![k] = [IdleCrud EXCEPT
                         !.ops = crud[k].ops + 1,
                              !.op = "create_paid", !.tariff_code = tariff,
                              !.result = "rejected"]]
               /\ UNCHANGED <<subscriptions, next_id>>
          ELSE /\ subscriptions' = subscriptions \cup
                      {create_paid_subscription(
                           next_id, UserId, tariff, now, 30, 0,
                           DEFAULT_DEVICE_LIMIT, TariffSquads[tariff])}
               /\ next_id' = next_id + 1
               /\ crud' = [crud EXCEPT ![k] = [IdleCrud EXCEPT
                         !.ops = crud[k].ops + 1,
                              !.op = "create_paid", !.tariff_code = tariff,
                              !.result = "created"]]
    /\ UNCHANGED <<now, squad_users, purchaseState>>
    /\ UNCHANGED contestVars
    /\ UNCHANGED panelVars
    /\ UNCHANGED <<tariffVars, syncVars>>

\* a create_pending_subscription that takes no row for active
StillActive_Never(r, t) == FALSE

\* create_pending_subscription: the row it found is active and not yet over
StillActive(r, t) == r.status = "active" /\ r.end_date > t

\* create_pending_subscription up to the result of
\* get_subscription_by_user_id
CrudPendingRead(k) ==
    /\ k \in active
    /\ crud[k].pc = "idle"
    /\ crud[k].ops < MaxCrudOps
    /\ \E tariff \in Tariffs :
          /\ subscriptions' = TableAfterGet(subscriptions, UserId, tariff, now)
          /\ crud' = [crud EXCEPT ![k] = [IdleCrud EXCEPT
                         !.ops = crud[k].ops + 1,
                         !.pc = "pending_write", !.op = "create_pending",
                         !.tariff_code = tariff, !.current_time = now,
                         !.seen = get_subscription_by_user_id(
                                      subscriptions, UserId, tariff, now)]]
    /\ UNCHANGED <<now, next_id, squad_users, purchaseState>>
    /\ UNCHANGED contestVars
    /\ UNCHANGED panelVars
    /\ UNCHANGED <<tariffVars, syncVars>>

\* create_pending_subscription from the existence test to its commit
CrudPendingWrite(k) ==
    /\ crud[k].pc = "pending_write"
    /\ LET f == crud[k]
           new == Row(next_id, UserId, f.tariff_code, "pending", FALSE,
                      f.current_time, f.current_time + 30, 0, 0, 1, {}, 0,
                      None)
       IN  IF f.seen.id # 0
           THEN IF StillActive(f.seen, f.current_time)
                THEN /\ crud' = [crud EXCEPT ![k] = [f EXCEPT
                                    !.pc = "idle", !.seen = NoRow,
                                    !.result = "ignored"]]
                     /\ UNCHANGED <<subscriptions, next_id>>
                ELSE /\ subscriptions' =
                            WriteRow(subscriptions,
                                     [f.seen EXCEPT
                                         !.status = "pending",
                                         !.is_trial = FALSE,
                                         !.start_date = f.current_time,
                                         !.end_date = f.current_time + 30,
                                         !.traffic_limit_gb = 0,
                                         !.device_limit = 1,
                                         !.connected_squads = {},
                                         !.traffic_used_gb = 0])
                     /\ crud' = [crud EXCEPT ![k] = [f EXCEPT
                                    !.pc = "idle", !.seen = NoRow,
                                    !.result = "updated"]]
                     /\ UNCHANGED next_id
           ELSE IF UniqueViolation(subscriptions, UserId, f.tariff_code)
           THEN /\ crud' = [crud EXCEPT ![k] = [f EXCEPT
                               !.pc = "idle", !.seen = NoRow, !.result = "rejected"]]
                /\ UNCHANGED <<subscriptions, next_id>>
           ELSE /\ subscriptions' = subscriptions \cup {new}
                /\ next_id' = next_id + 1
                /\ crud' = [crud EXCEPT ![k] = [f EXCEPT
                               !.pc = "idle", !.seen = NoRow, !.result = "created"]]
    /\ UNCHANGED <<now, squad_users, purchaseState>>
    /\ UNCHANGED contestVars
    /\ UNCHANGED panelVars
    /\ UNCHANGED <<tariffVars, syncVars>>

\* the rows the SELECT of activate_pending_subscription matches
PendingRows(rows, user, tariff) ==
    {r \in RowsOf(rows, user, tariff) : r.status = "pending"}

\* an activation that counts the period from the row's start_date
EffectiveStart_Unclamped(start_date, t) == start_date

\* activate_pending_subscription: the start of the period, never before t
EffectiveStart(start_date, t) == IF start_date < t THEN t ELSE start_date

\* activate_pending_subscription: the pending row made active at time t
activate_pending_subscription(r, period_days, t) ==
    [r EXCEPT !.status = "active",
              !.end_date = IF period_days # Unset
                           THEN EffectiveStart(r.start_date, t) + period_days
                           ELSE @,
              !.start_date = IF @ < t THEN t ELSE @]

\* activate_pending_subscription(user, period_days, tariff_code)
CrudActivatePending(k) ==
    /\ k \in active
    /\ crud[k].pc = "idle"
    /\ crud[k].ops < MaxCrudOps
    /\ \E tariff \in Tariffs, period_days \in {Unset, 30} :
         LET pending == PendingRows(subscriptions, UserId, tariff)
         IN  /\ subscriptions' =
                    IF pending = {} THEN subscriptions
                    ELSE WriteRow(subscriptions,
                                  activate_pending_subscription(
                                      Latest(pending), period_days, now))
             /\ crud' = [crud EXCEPT ![k] = [IdleCrud EXCEPT
                            !.ops = crud[k].ops + 1,
                            !.op = "activate_pending",
                            !.tariff_code = tariff, !.current_time = now,
                            !.period_days = period_days,
                            !.result = IF pending = {} THEN "none"
                                       ELSE "activated"]]
    /\ UNCHANGED <<now, next_id, squad_users, purchaseState>>
    /\ UNCHANGED <<contestVars, panelVars, tariffVars, syncVars>>

\* ensure_single_subscription: the newest row of the pair; older rows of
\* the pair are deleted
ensure_single_subscription(rows, user, tariff) ==
    IF Cardinality(RowsOf(rows, user, tariff)) <= 1
    THEN rows
    ELSE (rows \ RowsOf(rows, user, tariff))
             \cup {Latest(RowsOf(rows, user, tariff))}

\* update_or_create_subscription up to the result of
\* ensure_single_subscription
CrudEnsureSingle(k) ==
    /\ k \in active
    /\ crud[k].pc = "idle"
    /\ crud[k].ops < MaxCrudOps
    /\ \E tariff \in Tariffs :
          /\ subscriptions' =
                 ensure_single_subscription(subscriptions, UserId, tariff)
          /\ crud' = [crud EXCEPT ![k] = [IdleCrud EXCEPT
                         !.ops = crud[k].ops + 1,
                         !.pc = "uoc_write", !.op = "update_or_create",
                         !.tariff_code = tariff, !.current_time = now,
                         !.seen =
                             IF RowsOf(subscriptions, UserId, tariff) = {}
                             THEN NoRow
                             ELSE Latest(RowsOf(subscriptions, UserId,
                                                tariff))]]
    /\ UNCHANGED <<now, next_id, squad_users, purchaseState>>
    /\ UNCHANGED contestVars
    /\ UNCHANGED panelVars
    /\ UNCHANGED <<tariffVars, syncVars>>

\* update_or_create_subscription from the existence test to its commit,
\* called with status, is_trial, end_date and traffic_limit_gb
CrudUpdateOrCreate(k) ==
    /\ crud[k].pc = "uoc_write"
    /\ LET f == crud[k]
       IN  IF f.seen.id # 0
           THEN /\ subscriptions' =
                       WriteRow(subscriptions,
                                [f.seen EXCEPT
                                    !.status = "active",
                                    !.is_trial = FALSE,
                                    !.end_date = f.current_time + 30,
                                    !.traffic_limit_gb = 0])
                /\ crud' = [crud EXCEPT ![k] = [f EXCEPT
                               !.pc = "idle", !.seen = NoRow, !.result = "updated"]]
                /\ UNCHANGED next_id
           ELSE IF UniqueViolation(subscriptions, UserId, f.tariff_code)
           THEN /\ crud' = [crud EXCEPT ![k] = [f EXCEPT
                               !.pc = "idle", !.seen = NoRow, !.result = "rejected"]]
                /\ UNCHANGED <<subscriptions, next_id>>
           ELSE /\ subscriptions' = subscriptions \cup
                       {Row(next_id, UserId, f.tariff_code, "active", FALSE,
                            0, f.current_time + 30, 0, 0, 0, {}, 0, None)}
                /\ next_id' = next_id + 1
                /\ crud' = [crud EXCEPT ![k] = [f EXCEPT
                               !.pc = "idle", !.seen = NoRow, !.result = "created"]]
    /\ UNCHANGED <<now, squad_users, purchaseState>>
    /\ UNCHANGED contestVars
    /\ UNCHANGED panelVars
    /\ UNCHANGED <<tariffVars, syncVars>>

Next ==
    \/ Tick
    \/ PromoOfferExpires
    \/ PrepareSummary
    \/ \E c \in ConfirmCalls :
          \/ ConfirmGate(c)
          \/ ConfirmPrice(c)
          \/ ConfirmGetExisting(c)
          \/ ConfirmMutate(c)
          \/ ConfirmServers(c)
          \/ ConfirmPanel(c)
          \/ ConfirmRetry(c)
          \/ ConfirmLedger(c)
          \/ ConfirmMessage(c)
          \/ ConfirmCleanup(c)
          \/ ConfirmRaise(c)
          \/ ConfirmExcept(c)

Spec == Init /\ [][Next]_vars

SpecResetOnPayment == InitResetOnPayment /\ [][Next]_vars

\* a double tap: two confirm_purchase calls of the user run against the one
\* session draft the wizard prepared
InitDoubleTap ==
    /\ InitCommon
    /\ TariffIdle
    /\ PanelIdle
    /\ ContestIdle
    /\ purchases = [c \in ConfirmCalls |-> 0]
    /\ balance \in Balances
    /\ promo_offer \in {0, 4}
    /\ promo_group \in PromoGroups
    /\ gate = "ok"
    /\ settings \in {s \in SettingsProfiles :
                        s.TRIAL_ADD_REMAINING_DAYS_TO_PAID}
    /\ subscriptions \in {{}, {StdPaidActive, WhiteLimited}}
    /\ active = ConfirmCalls

\* the wizard prepares its draft before the first tap
PrepareOneDraft ==
    /\ \A c \in ConfirmCalls : purchases[c] = 0
    /\ PrepareSummary

NextDoubleTap ==
    \/ PrepareOneDraft
    \/ \E c \in ConfirmCalls :
          \/ ConfirmGate(c)
          \/ ConfirmPrice(c)
          \/ ConfirmGetExisting(c)
          \/ ConfirmMutate(c)
          \/ ConfirmServers(c)
          \/ ConfirmPanel(c)
          \/ ConfirmRetry(c)
          \/ ConfirmLedger(c)
          \/ ConfirmMessage(c)
          \/ ConfirmCleanup(c)
          \/ ConfirmRaise(c)
          \/ ConfirmExcept(c)

SpecDoubleTap == InitDoubleTap /\ [][NextDoubleTap]_vars

\* one purchase under each connect-button mode, with and without the custom
\* mini-app URL
ConnectButtonModes == {"guide", "miniapp_subscription", "miniapp_custom"}

InitConnect ==
    /\ InitCommon
    /\ TariffIdle
    /\ PanelIdle
    /\ ContestIdle
    /\ purchases = [c \in ConfirmCalls |-> 0]
    /\ balance \in Balances
    /\ promo_offer \in {0, 4}
    /\ promo_group \in PromoGroups
    /\ gate = "ok"
    /\ settings \in {[s EXCEPT !.CONNECT_BUTTON_MODE = m, !.MINIAPP_CUSTOM_URL = u] :
                        s \in SettingsProfiles, m \in ConnectButtonModes,
                        u \in {None, "url"}}
    /\ subscriptions \in {{}, {StdPaidActive, WhiteLimited}}
    /\ active = {"c1"}

SpecConnect == InitConnect /\ [][Next]_vars

\* the wizard and the confirmation with nothing changing in between: no
\* clock tick, no expiry of the promo offer
NextSameDraft ==
    \/ PrepareSummary
    \/ \E c \in ConfirmCalls :
          \/ ConfirmGate(c)
          \/ ConfirmPrice(c)
          \/ ConfirmGetExisting(c)
          \/ ConfirmMutate(c)
          \/ ConfirmServers(c)
          \/ ConfirmPanel(c)
          \/ ConfirmRetry(c)
          \/ ConfirmLedger(c)
          \/ ConfirmMessage(c)
          \/ ConfirmCleanup(c)
          \/ ConfirmRaise(c)
          \/ ConfirmExcept(c)

SpecSameDraft == Init /\ [][NextSameDraft]_vars

\* the repository under interleaved calls: repository callers with
\* MaxCrudOps operations each, confirm_purchase callers with one
\* invocation left each
InitCrud ==
    /\ InitCommon
    /\ TariffIdle
    /\ PanelIdle
    /\ ContestIdle
    /\ purchases = [c \in ConfirmCalls |-> MaxPurchases - 1]
    /\ balance = 100000
    /\ promo_offer = 0
    /\ promo_group \in PromoGroups
    /\ gate = "ok"
    /\ settings = [TRIAL_ADD_REMAINING_DAYS_TO_PAID |-> TRUE,
                   devices_selection_enabled |-> TRUE,
                   forced_disabled_limit |-> Unset,
                   RESET_TRAFFIC_ON_PAYMENT |-> FALSE, CONNECT_BUTTON_MODE |-> "guide", MINIAPP_CUSTOM_URL |-> None]
    /\ subscriptions \in {{}, {StdTrialExpired}}
    /\ active \in {{"k1", "k2"}, {"c1", "k1"}, {"c1", "c2"}}

ConfirmStep(c) ==
    \/ ConfirmGate(c)
    \/ ConfirmPrice(c)
    \/ ConfirmGetExisting(c)
    \/ ConfirmMutate(c)
    \/ ConfirmServers(c)
    \/ ConfirmPanel(c)
    \/ ConfirmRetry(c)
    \/ ConfirmLedger(c)
    \/ ConfirmMessage(c)
    \/ ConfirmCleanup(c)
    \/ ConfirmRaise(c)
    \/ ConfirmExcept(c)

NextCrud ==
    \/ PrepareSummary
    \/ \E c \in ConfirmCalls : ConfirmStep(c)
    \/ \E k \in CrudCallers :
          \/ CrudCreateTrial(k)
          \/ CrudCreatePaid(k)
          \/ CrudPendingRead(k)
          \/ CrudPendingWrite(k)
          \/ CrudEnsureSingle(k)
          \/ CrudUpdateOrCreate(k)

SpecCrud == InitCrud /\ [][NextCrud]_vars

\* a payment that is started and confirmed: create_pending_subscription and
\* activate_pending_subscription over the rows a user can have, on the same
\* day and on a later one
StdPending ==
    Row(1, UserId, STANDARD, "pending", FALSE, 0 - 1, 29, 0, 0, 1, {}, 0, None)

\* a paid row in its last day
StdPaidEnding ==
    Row(1, UserId, STANDARD, "active", FALSE, 0 - 29, 1, 0, 0, 1, {"sq_std"}, 2, "pu_standard")

InitPending ==
    /\ InitCommon
    /\ TariffIdle
    /\ PanelIdle
    /\ ContestIdle
    /\ purchases = [c \in ConfirmCalls |-> 0]
    /\ balance = 0
    /\ promo_offer = 0
    /\ promo_group \in PromoGroups
    /\ gate = "ok"
    /\ settings = [TRIAL_ADD_REMAINING_DAYS_TO_PAID |-> TRUE,
                   devices_selection_enabled |-> TRUE,
                   forced_disabled_limit |-> Unset,
                   RESET_TRAFFIC_ON_PAYMENT |-> FALSE, CONNECT_BUTTON_MODE |-> "guide", MINIAPP_CUSTOM_URL |-> None]
    /\ subscriptions \in InitialTables \cup {{StdPending}, {StdPaidEnding},
                                              {StdPending, WhiteLimited}}
    /\ active = CrudCallers

NextPending ==
    \/ Tick
    \/ \E k \in CrudCallers :
          \/ CrudPendingRead(k)
          \/ CrudPendingWrite(k)
          \/ CrudActivatePending(k)

SpecPending == InitPending /\ [][NextPending]_vars

(***************************************************************************)
(* ContestAttemptService, one action per stretch between its awaits.       *)
(***************************************************************************)
purchaseVars == <<now, balance, promo_offer, promo_group, gate, settings,
                  subscriptions, next_id, transactions, cart, checkout_draft,
                  fsm_data, fsm_state, cp, active, purchases, squad_users,
                  crud>>

\* the user of an attempt call: p1_again is a second call of user p1 (a
\* second tap on the button, a second message)
AttemptCalls == {"p1", "p1_again"}
PlayerOf(call) == IF call = "p1_again" THEN "p1" ELSE call

\* create_pending_attempt: the render phase of a text game
CreatePendingAttempt(u) ==
    /\ round.kind = "text"
    /\ ca[u].pc = "idle"
    /\ ~attempts[PlayerOf(u)].exists
    /\ attempts' = [attempts EXCEPT ![PlayerOf(u)] = [NoAttempt EXCEPT !.exists = TRUE]]
    /\ UNCHANGED <<round, ca, purchaseVars>>
    /\ UNCHANGED panelVars
    /\ UNCHANGED <<tariffVars, syncVars>>

\* process_button_attempt up to the call of _atomic_winner_check
ProcessButtonAttempt(u) ==
    /\ round.kind = "button"
    /\ ca[u].pc = "idle"
    /\ ca[u].calls < MaxContestCalls
    /\ \E pick \in {"right", "wrong"} :
          ca' = [ca EXCEPT ![u] =
                    IF attempts[PlayerOf(u)].exists
                    THEN [IdleAttemptCall EXCEPT
                             !.calls = ca[u].calls + 1,
                             !.prizes = ca[u].prizes,
                             !.result = "already_played"]
                    ELSE [IdleAttemptCall EXCEPT
                             !.calls = ca[u].calls + 1,
                             !.prizes = ca[u].prizes,
                             !.pc = "winner_check", !.answer = pick,
                             !.is_winner = (pick = "right")]]
    /\ UNCHANGED <<round, attempts, purchaseVars>>
    /\ UNCHANGED panelVars
    /\ UNCHANGED <<tariffVars, syncVars>>

\* process_text_attempt up to the call of _atomic_winner_check
ProcessTextAttempt(u) ==
    /\ round.kind = "text"
    /\ ca[u].pc = "idle"
    /\ ca[u].calls < MaxContestCalls
    /\ \E text_answer \in {"right", "wrong"} :
          ca' = [ca EXCEPT ![u] =
                    IF ~attempts[PlayerOf(u)].exists
                    THEN [IdleAttemptCall EXCEPT
                             !.calls = ca[u].calls + 1,
                             !.prizes = ca[u].prizes,
                             !.result = "not_started"]
                    ELSE IF attempts[PlayerOf(u)].answer # None
                    THEN [IdleAttemptCall EXCEPT
                             !.calls = ca[u].calls + 1,
                             !.prizes = ca[u].prizes,
                             !.result = "already_played"]
                    ELSE [IdleAttemptCall EXCEPT
                             !.calls = ca[u].calls + 1,
                             !.prizes = ca[u].prizes,
                             !.pc = "winner_check", !.answer = text_answer,
                             !.is_winner = (text_answer = "right")]]
    /\ UNCHANGED <<round, attempts, purchaseVars>>
    /\ UNCHANGED panelVars
    /\ UNCHANGED <<tariffVars, syncVars>>

\* the row lock of SELECT ... FOR UPDATE can be taken
RowLockFree_Ignored(lock) == TRUE

RowLockFree(lock) == lock = None

\* _atomic_winner_check: a wrong answer returns False at once; a right one
\* selects the round FOR UPDATE, which waits for the row lock and reads
\* winners_count
AtomicWinnerSelect(u) ==
    /\ ca[u].pc = "winner_check"
    /\ IF ~ca[u].is_winner
       THEN /\ ca' = [ca EXCEPT ![u].pc = "record"]
            /\ UNCHANGED round
       ELSE /\ RowLockFree(round.lock)
            /\ round' = [round EXCEPT !.lock = u]
            /\ ca' = [ca EXCEPT ![u].pc = "winner_commit",
                                ![u].winners_count = round.winners_count]
    /\ UNCHANGED <<attempts, purchaseVars>>
    /\ UNCHANGED panelVars
    /\ UNCHANGED <<tariffVars, syncVars>>

\* _atomic_winner_check: a winner slot is left
WinnerSlotFree(winners_count, max_winners) == winners_count < max_winners

\* _atomic_winner_check from the capacity test to its return: a full round
\* returns False with the transaction open, a free slot is counted and
\* committed
AtomicWinnerCommit(u) ==
    /\ ca[u].pc = "winner_commit"
    /\ IF WinnerSlotFree(ca[u].winners_count, round.max_winners)
       THEN /\ round' = [round EXCEPT
                            !.winners_count = ca[u].winners_count + 1,
                            !.lock = IF @ = u THEN None ELSE @]
            /\ ca' = [ca EXCEPT ![u].pc = "record"]
       ELSE /\ ca' = [ca EXCEPT ![u].pc = "record", ![u].is_winner = FALSE]
            /\ UNCHANGED round
    /\ UNCHANGED <<attempts, purchaseVars>>
    /\ UNCHANGED panelVars
    /\ UNCHANGED <<tariffVars, syncVars>>

\* create_attempt finds a row of the round and the user: the insert of a
\* second one raises and the call ends with the exception
AttemptExists(kind, row) == kind = "button" /\ row.exists

\* create_attempt (button) or update_attempt (text) and its commit, which
\* ends a transaction left open by _atomic_winner_check
RecordAttempt(u) ==
    /\ ca[u].pc = "record"
    /\ round' = [round EXCEPT !.lock = IF @ = u THEN None ELSE @]
    /\ IF AttemptExists(round.kind, attempts[PlayerOf(u)])
       THEN /\ ca' = [ca EXCEPT ![u].pc = "idle", ![u].result = "error"]
            /\ UNCHANGED attempts
       ELSE /\ attempts' = [attempts EXCEPT ![PlayerOf(u)] =
                               [exists |-> TRUE, answer |-> ca[u].answer,
                                is_winner |-> ca[u].is_winner]]
            /\ ca' = [ca EXCEPT
                         ![u].pc = IF ca[u].is_winner THEN "award" ELSE "idle",
                         ![u].result = IF ca[u].is_winner THEN None
                                       ELSE "lost"]
    /\ UNCHANGED purchaseVars
    /\ UNCHANGED panelVars
    /\ UNCHANGED <<tariffVars, syncVars>>

(***************************************************************************)
(* The panel synchronisation (SubscriptionService / RemnaWaveService).     *)
(***************************************************************************)
\* _build_remnawave_username: the base username, for white with the suffix
\* appended unless the base already ends with it
_build_remnawave_username(base, tariff) ==
    IF tariff # WHITE THEN base
    ELSE IF base.suffixed THEN base
    ELSE Username(base.stem, TRUE)

\* _resolve_user_tag
_resolve_user_tag(r, tariff, st) ==
    IF r.is_trial THEN "TRIAL"
    ELSE IF tariff = WHITE /\ st.WHITE_TARIFF_TAG # None
    THEN st.WHITE_TARIFF_TAG
    ELSE IF tariff # WHITE /\ st.STANDARD_TARIFF_TAG # None
    THEN st.STANDARD_TARIFF_TAG
    ELSE "PAID"

\* _resolve_subscription_uuid
_resolve_subscription_uuid(r, u, tariff) ==
    IF r.remnawave_uuid # None THEN r.remnawave_uuid
    ELSE IF tariff = STANDARD THEN u.remnawave_uuid
    ELSE None

\* _pick_panel_user_by_username: the panel users it can return for the
\* candidates of get_user_by_telegram_id (the first match of a list whose
\* order the panel decides)
_pick_panel_user_by_username(candidates, username, tariff, st) ==
    LET byName == {x \in candidates : x.username = username}
        byWhiteTag == {x \in candidates : st.WHITE_TARIFF_TAG # None
                                          /\ x.tag = st.WHITE_TARIFF_TAG}
        byStdTag == {x \in candidates : st.STANDARD_TARIFF_TAG # None
                                        /\ x.tag = st.STANDARD_TARIFF_TAG}
        bySuffix == {x \in candidates : x.username.suffixed}
    IN  IF candidates = {} THEN {NoPanelUser}
        ELSE IF byName # {} THEN byName
        ELSE IF tariff = WHITE
        THEN IF byWhiteTag # {} THEN byWhiteTag
             ELSE IF bySuffix # {} THEN bySuffix
             ELSE {NoPanelUser}
        ELSE IF byStdTag # {} THEN byStdTag
        ELSE IF Cardinality(candidates) = 1
        THEN IF byWhiteTag # {} \/ bySuffix # {} THEN {NoPanelUser}
             ELSE candidates
        ELSE {NoPanelUser}

\* the unique index uq_subscriptions_remnawave_uuid: a commit that leaves two
\* rows with one non-null remnawave_uuid raises IntegrityError
UuidViolation(rows) ==
    \E r, q \in rows : /\ r.id # q.id
                       /\ r.remnawave_uuid # None
                       /\ r.remnawave_uuid = q.remnawave_uuid

\* api.get_user_by_uuid / get_user_by_username / get_user_by_telegram_id
get_user_by_uuid(pnl, uuid) == {x \in pnl : x.uuid = uuid}
get_user_by_username(pnl, username) == {x \in pnl : x.username = username}
get_user_by_telegram_id(pnl, tg) == {x \in pnl : x.telegram_id = tg}

\* the panel users create_remnawave_user / update_remnawave_user /
\* sync_users_to_panel can find for a subscription without a usable UUID:
\* by the built username, else among the users of the Telegram ID
LookupByName(pnl, r, u, tariff, st) ==
    LET username == _build_remnawave_username(u.base_username, tariff)
    IN  IF get_user_by_username(pnl, username) # {}
        THEN get_user_by_username(pnl, username)
        ELSE _pick_panel_user_by_username(
                 get_user_by_telegram_id(pnl, TelegramId), username, tariff,
                 st)

\* a validation that takes every panel user for the user's own
ForeignPanelUser_Ignored(found) == FALSE

\* validate_and_clean_subscription: the panel user of the UUID belongs to
\* another Telegram ID
ForeignPanelUser(found) == \E x \in found : x.telegram_id # TelegramId

\* validate_and_clean_subscription: [ok, r, lk, u] after it, api_down saying
\* whether its get_user_by_uuid raises
validate_and_clean_subscription(r, lk, u, pnl, rows, api_down) ==
    LET tariff == r.tariff_code
        adopt == /\ tariff = STANDARD
                 /\ u.remnawave_uuid # None
                 /\ r.remnawave_uuid # u.remnawave_uuid
        r1 == IF adopt THEN [r EXCEPT !.remnawave_uuid = u.remnawave_uuid]
              ELSE r
        remnawave_uuid == _resolve_subscription_uuid(r1, u, tariff)
        found == get_user_by_uuid(pnl, remnawave_uuid)
        needs_cleanup ==
            \/ /\ remnawave_uuid # None
               /\ \/ api_down
                  \/ found = {}
                  \/ ForeignPanelUser(found)
            \/ lk.remnawave_short_uuid # None /\ remnawave_uuid = None
    IN  IF needs_cleanup
        THEN [ok |-> TRUE, api_raised |-> remnawave_uuid # None /\ api_down,
              r |-> [r1 EXCEPT !.remnawave_uuid = None,
                               !.connected_squads = {}],
              lk |-> NoLinks,
              u |-> IF tariff = STANDARD
                    THEN [u EXCEPT !.remnawave_uuid = None] ELSE u]
        ELSE IF adopt /\ UuidViolation(WriteRow(rows, r1))
        THEN [ok |-> FALSE, api_raised |-> FALSE, r |-> r, lk |-> lk, u |-> u]
        ELSE [ok |-> TRUE, api_raised |-> FALSE, r |-> r1, lk |-> lk, u |-> u]

\* the row of the user for a tariff (the one the caller passes in)
SubscriptionOf(rows, tariff) == CHOOSE r \in rows : r.tariff_code = tariff

\* the panel user a write of the panel returns: api.update_user sets the tag
\* and the status
PanelUpdated(x, tag, status) == [x EXCEPT !.tag = tag, !.status = status]
\* api.create_user: a new panel user under a UUID the panel issues
PanelCreated(n, username, tag) ==
    [uuid |-> UuidOf(n + 1), username |-> username,
     telegram_id |-> TelegramId, tag |-> tag, status |-> "ACTIVE"]

\* the status create_remnawave_user sends when it found the panel user
CreateStatus(r) == "ACTIVE"

\* the status update_remnawave_user sends: is_actually_active
UpdateStatus(r, t) ==
    IF r.status = "active" /\ r.end_date > t THEN "ACTIVE" ELSE "EXPIRED"

\* the status a task of sync_users_to_panel sends: is_subscription_active
SyncStatus(r, t) ==
    IF r.status \in {"active", "trial"} /\ r.end_date > t
    THEN "ACTIVE" ELSE "DISABLED"

\* what a call leaves behind: whether an exception occurred inside it, its
\* result, what it did on the panel and the persisted rows, links and User row
Outcome(raised, result, panel_op, target, rows, lks, u, pnl) ==
    [raised |-> raised, result |-> result, panel_op |-> panel_op, target |-> target,
     rows |-> rows, links |-> lks, user_row |-> u, panel |-> pnl]

\* a create_remnawave_user that looks nobody up and always creates
CreateLookup_NoLookup(r, u, pnl, tariff, st) == {NoPanelUser}

\* the panel users create_remnawave_user can settle on after its validation:
\* by UUID, else by username, else among the users of the Telegram ID
CreateLookup(r, u, pnl, tariff, st) ==
    LET remnawave_uuid == _resolve_subscription_uuid(r, u, tariff)
    IN  IF remnawave_uuid # None /\ get_user_by_uuid(pnl, remnawave_uuid) # {}
        THEN get_user_by_uuid(pnl, remnawave_uuid)
        ELSE LookupByName(pnl, r, u, tariff, st)

\* create_remnawave_user: fails names the panel requests that raise, target
\* is the panel user its lookups return, n the UUIDs issued so far
create_remnawave_user(r, rows, lks, u, pnl, st, fails, target, n) ==
    LET tariff == r.tariff_code
        v == validate_and_clean_subscription(r, lks[r.id], u, pnl, rows,
                                             "validate" \in fails)
        rows1 == WriteRow(rows, v.r)
        lks1 == [lks EXCEPT ![r.id] = v.lk]
        user_tag == _resolve_user_tag(v.r, tariff, st)
        username == _build_remnawave_username(u.base_username, tariff)
        updated_user == IF target # NoPanelUser
                        THEN PanelUpdated(target, user_tag, CreateStatus(v.r))
                        ELSE PanelCreated(n, username, user_tag)
        pnl2 == (pnl \ {target}) \cup {updated_user}
        r2 == [v.r EXCEPT !.remnawave_uuid = updated_user.uuid]
        rows2 == WriteRow(rows1, r2)
        lks2 == [lks1 EXCEPT ![r.id] = LinksOf(updated_user.uuid)]
        u2 == IF tariff = STANDARD
              THEN [v.u EXCEPT !.remnawave_uuid = updated_user.uuid] ELSE v.u
        panel_op == IF target # NoPanelUser THEN "update" ELSE "create"
    IN  IF ~v.ok THEN Outcome(TRUE, None, None, None, rows, lks, u, pnl)
        ELSE IF "lookup" \in fails \/ "write" \in fails
        THEN Outcome(TRUE, None, None, None, rows1, lks1, v.u, pnl)
        ELSE IF UuidViolation(rows2)
        THEN Outcome(TRUE, None, panel_op, updated_user.uuid, rows1, lks1, v.u,
                     pnl2)
        ELSE Outcome(v.api_raised, updated_user.uuid, panel_op, updated_user.uuid, rows2,
                     lks2, u2, pnl2)

\* update_remnawave_user: t is the current time
update_remnawave_user(r, rows, lks, u, pnl, st, fails, target, t) ==
    LET tariff == r.tariff_code
        known == _resolve_subscription_uuid(r, u, tariff)
        remnawave_uuid == IF known # None THEN known ELSE target.uuid
        r1 == IF known = None THEN [r EXCEPT !.remnawave_uuid = remnawave_uuid]
              ELSE r
        u1 == IF known = None /\ tariff = STANDARD
              THEN [u EXCEPT !.remnawave_uuid = remnawave_uuid] ELSE u
        demoted == r.status = "active" /\ r.end_date <= t
        r2 == IF demoted THEN [r1 EXCEPT !.status = "expired"] ELSE r1
        rows2 == WriteRow(rows, r2)
        found == get_user_by_uuid(pnl, remnawave_uuid)
        user_tag == _resolve_user_tag(r2, tariff, st)
        pnl3 == {IF x \in found THEN PanelUpdated(x, user_tag, UpdateStatus(r, t))
                 ELSE x : x \in pnl}
        lks3 == [lks EXCEPT ![r.id] =
                    [@ EXCEPT !.subscription_url = "url_" \o remnawave_uuid]]
        \* the rows and User row the commit of the demotion leaves
        rowsD == IF demoted /\ ~UuidViolation(rows2) THEN rows2 ELSE rows
        uD == IF demoted /\ ~UuidViolation(rows2) THEN u1 ELSE u
    IN  IF known = None /\ ("lookup" \in fails \/ target = NoPanelUser)
        THEN Outcome("lookup" \in fails, None, None, None, rows, lks, u, pnl)
        ELSE IF demoted /\ UuidViolation(rows2)
        THEN Outcome(TRUE, None, None, None, rows, lks, u, pnl)
        ELSE IF "write" \in fails \/ found = {}
        THEN Outcome(TRUE, None, None, None, rowsD, lks, uD, pnl)
        ELSE IF UuidViolation(rows2)
        THEN Outcome(TRUE, None, "update", remnawave_uuid, rowsD, lks, uD,
                     pnl3)
        ELSE Outcome(FALSE, remnawave_uuid, "update", remnawave_uuid, rows2, lks3,
                     u1, pnl3)

\* process_subscription of sync_users_to_panel for one row: seen is the
\* panel its lookups read, pnl the panel its write reaches
process_subscription(r, lk, u, seen, pnl, st, fails, target, n) ==
    LET tariff == r.tariff_code
        username == _build_remnawave_username(u.base_username, tariff)
        user_tag == _resolve_user_tag(r, tariff, st)
        known == _resolve_subscription_uuid(r, u, tariff)
        panel_uuid == IF known # None THEN known ELSE target.uuid
        r1 == IF panel_uuid # None
              THEN [r EXCEPT !.remnawave_uuid = panel_uuid] ELSE r
        u1 == IF known = None /\ panel_uuid # None /\ tariff = STANDARD
              THEN [u EXCEPT !.remnawave_uuid = panel_uuid] ELSE u
        found == get_user_by_uuid(pnl, panel_uuid)
        new_user == PanelCreated(n, username, user_tag)
        Result(action, target_uuid, rr, ll, uu, pp, nn) ==
            [action |-> action, target |-> target_uuid, r |-> rr, lk |-> ll,
             u |-> uu, panel |-> pp, n |-> nn]
    IN  IF known = None /\ "lookup" \in fails
        THEN Result("error", None, r, lk, u, pnl, n)
        ELSE IF "write" \in fails
        THEN Result("error", None, r1, lk, u1, pnl, n)
        ELSE IF panel_uuid # None /\ found # {}
        THEN Result("updated", panel_uuid, r1,
                    [lk EXCEPT !.subscription_url = "url_" \o panel_uuid], u1,
                    {IF x \in found
                     THEN PanelUpdated(x, user_tag, SyncStatus(r, now)) ELSE x :
                        x \in pnl}, n)
        ELSE IF get_user_by_username(pnl, username) # {}
        THEN Result("error", None, r1, lk, u1, pnl, n)
        ELSE Result("created", new_user.uuid,
                    [r1 EXCEPT !.remnawave_uuid = new_user.uuid],
                    LinksOf(new_user.uuid),
                    IF tariff = STANDARD
                    THEN [u1 EXCEPT !.remnawave_uuid = new_user.uuid] ELSE u1,
                    pnl \cup {new_user}, n + 1)

\* how many of two results carry an action
CountOf(action, a, b) ==
    (IF a.action = action THEN 1 ELSE 0) + (IF b.action = action THEN 1 ELSE 0)

\* sync_users_to_panel over the two rows of the user: the tasks of one batch
\* run in either order, overlapped when the lookups of the second precede
\* the write of the first; the batch commit rolls back on IntegrityError
sync_users_to_panel(rows, lks, u, pnl, st, order, overlapped, fails, t1, t2, n) ==
    LET ra == SubscriptionOf(rows, order[1])
        rb == SubscriptionOf(rows, order[2])
        a == process_subscription(ra, lks[ra.id], u, pnl, pnl, st, fails, t1, n)
        b == process_subscription(rb, lks[rb.id], a.u,
                                  IF overlapped THEN pnl ELSE a.panel,
                                  a.panel, st, fails, t2, a.n)
        rows2 == WriteRow(WriteRow(rows, a.r), b.r)
        lks2 == [lks EXCEPT ![ra.id] = a.lk, ![rb.id] = b.lk]
        stats == [created |-> CountOf("created", a, b),
                  updated |-> CountOf("updated", a, b),
                  errors |-> CountOf("error", a, b)
                             + IF UuidViolation(rows2) THEN 2 ELSE 0]
    IN  [stats |-> stats, first |-> a, second |-> b, panel |-> b.panel,
         n |-> b.n,
         rows |-> IF UuidViolation(rows2) THEN rows ELSE rows2,
         links |-> IF UuidViolation(rows2) THEN lks ELSE lks2,
         user_row |-> IF UuidViolation(rows2) THEN u ELSE b.u]

\* the record a call of the panel synchronisation leaves in sync
SyncFrame(op, tariff, fails, raised, result, panel_op, target, target2, stats) ==
    [n |-> sync.n + 1, op |-> op, raised |-> raised, tariff |-> tariff,
     reachable |-> fails = {},
     result |-> result, panel_op |-> panel_op, target |-> target,
     target2 |-> target2, stats |-> stats,
     before |-> [rows |-> subscriptions, user_row |-> user_row,
                 links |-> links],
     panel_before |-> panel,
     prev |-> [op |-> sync.op, tariff |-> sync.tariff,
               result |-> sync.result]]

\* create_remnawave_user for the row of a tariff
CreateRemnawaveUser(tariff) ==
    /\ sync.n < MaxPanelCalls
    /\ next_uuid < MaxPanelUsers
    /\ \E fails \in SUBSET {"validate", "lookup", "write"} :
         LET r == SubscriptionOf(subscriptions, tariff)
             v == validate_and_clean_subscription(r, links[r.id], user_row,
                      panel, subscriptions, "validate" \in fails)
         IN  \E target \in CreateLookup(v.r, v.u, panel, tariff, settings) :
               LET o == create_remnawave_user(r, subscriptions, links,
                            user_row, panel, settings, fails, target,
                            next_uuid)
               IN  /\ subscriptions' = o.rows
                   /\ links' = o.links
                   /\ user_row' = o.user_row
                   /\ panel' = o.panel
                   /\ next_uuid' = IF o.panel_op = "create"
                                   THEN next_uuid + 1 ELSE next_uuid
                   /\ sync' = SyncFrame("create", tariff, fails, o.raised,
                                        o.result,
                                        o.panel_op, o.target, None, NoStats)
    /\ UNCHANGED <<now, balance, promo_offer, promo_group, gate, settings,
                   next_id, transactions, cart, checkout_draft, fsm_data,
                   fsm_state, cp, active, purchases, squad_users, crud>>
    /\ UNCHANGED contestVars
    /\ UNCHANGED <<tariffVars, syncVars>>

\* update_remnawave_user for the row of a tariff
UpdateRemnawaveUser(tariff) ==
    /\ sync.n < MaxPanelCalls
    /\ \E fails \in SUBSET {"lookup", "write"} :
         LET r == SubscriptionOf(subscriptions, tariff)
         IN  \E target \in LookupByName(panel, r, user_row, tariff, settings) :
               LET o == update_remnawave_user(r, subscriptions, links,
                            user_row, panel, settings, fails, target, now)
               IN  /\ subscriptions' = o.rows
                   /\ links' = o.links
                   /\ user_row' = o.user_row
                   /\ panel' = o.panel
                   /\ sync' = SyncFrame("update", tariff, fails, o.raised,
                                        o.result,
                                        o.panel_op, o.target, None, NoStats)
    /\ UNCHANGED <<now, balance, promo_offer, promo_group, gate, settings,
                   next_id, transactions, cart, checkout_draft, fsm_data,
                   fsm_state, cp, active, purchases, squad_users, crud>>
    /\ UNCHANGED <<contestVars, next_uuid>>
    /\ UNCHANGED <<tariffVars, syncVars>>

\* sync_users_to_panel over the rows of the user
SyncUsersToPanel ==
    /\ sync.n < MaxPanelCalls
    /\ next_uuid + 1 < MaxPanelUsers
    /\ \E order \in {<<STANDARD, WHITE>>, <<WHITE, STANDARD>>},
          overlapped \in BOOLEAN, fails \in SUBSET {"lookup", "write"} :
         LET ra == SubscriptionOf(subscriptions, order[1])
             rb == SubscriptionOf(subscriptions, order[2])
         IN  \E t1 \in LookupByName(panel, ra, user_row, order[1], settings) :
               LET a == process_subscription(ra, links[ra.id], user_row,
                            panel, panel, settings, fails, t1, next_uuid)
               IN  \E t2 \in LookupByName(IF overlapped THEN panel ELSE a.panel,
                                          rb, a.u, order[2], settings) :
                     LET o == sync_users_to_panel(subscriptions, links,
                                  user_row, panel, settings, order,
                                  overlapped, fails, t1, t2, next_uuid)
                     IN  /\ subscriptions' = o.rows
                         /\ links' = o.links
                         /\ user_row' = o.user_row
                         /\ panel' = o.panel
                         /\ next_uuid' = o.n
                         /\ sync' = SyncFrame("sync", order[1], fails,
                                        FALSE, None, None, o.first.target,
                                        o.second.target, o.stats)
    /\ UNCHANGED <<now, balance, promo_offer, promo_group, gate, settings,
                   next_id, transactions, cart, checkout_draft, fsm_data,
                   fsm_state, cp, active, purchases, squad_users, crud>>
    /\ UNCHANGED contestVars
    /\ UNCHANGED <<tariffVars, syncVars>>

\* the rows of a user that bought both tariffs; the standard one possibly
\* past its end date, each possibly linked to a panel user already
PanelRow(id, tariff, end, squads, uuid) ==
    Row(id, UserId, tariff, "active", FALSE, 0 - 4, end, 10, 0,
        DEFAULT_DEVICE_LIMIT, squads, 0, uuid)

PanelTagProfiles ==
    {[STANDARD_TARIFF_TAG |-> None, WHITE_TARIFF_TAG |-> None],
     [STANDARD_TARIFF_TAG |-> "STD", WHITE_TARIFF_TAG |-> "WHT"]}

InitPanel ==
    /\ InitCommon
    /\ TariffIdle
    /\ ContestIdle
    /\ purchases = [c \in ConfirmCalls |-> 0]
    /\ balance = 0
    /\ promo_offer = 0
    /\ promo_group \in PromoGroups
    /\ gate = "ok"
    /\ active = {}
    /\ settings \in PanelTagProfiles
    /\ sync = IdleSync
    /\ \E base \in {Username("u", FALSE), Username("a", TRUE)},
          std_end \in {0, PaidRemainingDays},
          std_uuid \in {None, UuidOf(1)},
          user_uuid \in {None, UuidOf(1)},
          in_panel \in BOOLEAN :
          /\ std_uuid # None => user_uuid = std_uuid
          /\ subscriptions =
                {PanelRow(1, STANDARD, std_end, {"sq_std"}, std_uuid),
                 PanelRow(2, WHITE, WhiteUnlimitedEndDate, {"sq_white"}, None)}
          /\ user_row = [remnawave_uuid |-> user_uuid, base_username |-> base]
          /\ links = [i \in RowIds |->
                        IF i = 1 /\ std_uuid # None THEN LinksOf(std_uuid)
                        ELSE NoLinks]
          /\ panel = IF in_panel
                     THEN {[uuid |-> UuidOf(1), username |-> base,
                            telegram_id |-> TelegramId, tag |-> "PAID",
                            status |-> "ACTIVE"]}
                     ELSE {}
          /\ next_uuid = 1

NextPanel ==
    \/ \E tariff \in Tariffs : CreateRemnawaveUser(tariff)
    \/ \E tariff \in Tariffs : UpdateRemnawaveUser(tariff)
    \/ SyncUsersToPanel

SpecPanel == InitPanel /\ [][NextPanel]_vars

\* the purchase flow's variables other than the Subscription table
besideRows == <<now, balance, promo_offer, promo_group, gate, settings, next_id, transactions, cart, checkout_draft, fsm_data, fsm_state, cp, active, purchases, squad_users, crud>>

\* validate_and_clean_subscription called for the row of a tariff
ValidateAndCleanSubscription(tariff) ==
    /\ sync.n < MaxPanelCalls
    /\ \E api_down \in BOOLEAN :
         LET r == SubscriptionOf(subscriptions, tariff)
             v == validate_and_clean_subscription(r, links[r.id], user_row,
                      panel, subscriptions, api_down)
         IN  /\ subscriptions' = WriteRow(subscriptions, v.r)
             /\ links' = [links EXCEPT ![r.id] = v.lk]
             /\ user_row' = v.u
             /\ sync' = SyncFrame("validate", tariff,
                                  IF api_down THEN {"validate"} ELSE {},
                                  ~v.ok, IF v.ok THEN "True" ELSE "False",
                                  None, None, None, NoStats)
    /\ UNCHANGED <<besideRows, contestVars, tariffVars, syncVars, panel, next_uuid>>

\* the states validate_and_clean_subscription can find: rows linked to a
\* panel user of the user, of another Telegram ID or of nobody, a User row
\* whose UUID the standard row has not taken yet, short UUIDs left without
\* a UUID
PanelUserOf(uuid, tg) ==
    [uuid |-> uuid, username |-> Username(uuid, FALSE), telegram_id |-> tg,
     tag |-> "PAID", status |-> "ACTIVE"]

InitValidate ==
    /\ InitCommon
    /\ TariffIdle
    /\ ContestIdle
    /\ purchases = [c \in ConfirmCalls |-> 0]
    /\ balance = 0
    /\ promo_offer = 0
    /\ promo_group \in PromoGroups
    /\ gate = "ok"
    /\ active = {}
    /\ settings = [STANDARD_TARIFF_TAG |-> None, WHITE_TARIFF_TAG |-> None]
    /\ sync = IdleSync
    /\ next_uuid = 2
    /\ \E std_uuid \in {None, UuidOf(1), UuidOf(2)},
          white_uuid \in {None, UuidOf(1), UuidOf(2)},
          user_uuid \in {None, UuidOf(1), UuidOf(2)},
          short \in SUBSET RowIds,
          owners \in [{UuidOf(1), UuidOf(2)} -> {None, TelegramId, "tg2"}] :
          /\ std_uuid # None => std_uuid # white_uuid
          /\ subscriptions =
                {PanelRow(1, STANDARD, PaidRemainingDays, {"sq_std"}, std_uuid),
                 PanelRow(2, WHITE, WhiteUnlimitedEndDate, {"sq_white"},
                          white_uuid)}
          /\ user_row = [remnawave_uuid |-> user_uuid,
                         base_username |-> Username("u", FALSE)]
          /\ links = [i \in RowIds |->
                        IF i \in short THEN LinksOf(UuidOf(i)) ELSE NoLinks]
          /\ panel = {PanelUserOf(x, owners[x]) :
                         x \in {y \in DOMAIN owners : owners[y] # None}}

NextValidate == \E tariff \in Tariffs : ValidateAndCleanSubscription(tariff)

SpecValidate == InitValidate /\ [][NextValidate]_vars

(***************************************************************************)
(* The prize of a contest winner and the contest specifications.           *)
(***************************************************************************)
\* the decimal digits a prize_value is written with
DigitValue == ("0" :> 0) @@ ("5" :> 5)
IsDigit(ch) == ch \in DOMAIN DigitValue

\* re.search(r"\d+", value): the first maximal run of digits
RECURSIVE SkipToDigits(_)
SkipToDigits(s) ==
    IF s = <<>> \/ IsDigit(Head(s)) THEN s ELSE SkipToDigits(Tail(s))
RECURSIVE LeadingDigits(_)
LeadingDigits(s) ==
    IF s = <<>> \/ ~IsDigit(Head(s)) THEN <<>>
    ELSE <<Head(s)>> \o LeadingDigits(Tail(s))
\* int(match.group(0))
RECURSIVE int(_)
int(digits) ==
    IF digits = <<>> THEN 0
    ELSE int(SubSeq(digits, 1, Len(digits) - 1)) * 10
         + DigitValue[digits[Len(digits)]]

\* a parser that answers the default whatever the value says
_parse_positive_int_Default(value, default) == default

\* ContestAttemptService._parse_positive_int
_parse_positive_int(value, default) ==
    LET match == LeadingDigits(SkipToDigits(value))
    IN  IF value = <<>> THEN default
        ELSE IF match = <<>> THEN default
        ELSE IF int(match) > 0 THEN int(match) ELSE default

\* app.database.crud.subscription.extend_subscription, committed
extend_subscription(r, days) == [r EXCEPT !.end_date = @ + days]

\* the user a contest player is: the first player owns the subscriptions
SubscriberOf(u) == IF PlayerOf(u) = "p1" THEN UserId ELSE u

\* get_subscription_by_user_id_and_tariff(db, user_id, "standard")
PrizeRows(u) ==
    {r \in subscriptions : r.user_id = SubscriberOf(u) /\ r.tariff_code = STANDARD}

\* _award_prize for a prize of days and the winner's AttemptResult: the
\* extension, then update_remnawave_user inside try / except
AwardPrize(u) ==
    /\ ca[u].pc = "award"
    /\ ca' = [ca EXCEPT ![u].pc = "idle", ![u].result = "won",
                        ![u].prizes = @ + 1]
    /\ IF PrizeRows(u) = {}
       THEN UNCHANGED <<subscriptions, panelVars>>
       ELSE \E fails \in SUBSET {"lookup", "write"}, raises \in BOOLEAN :
              LET prize_value == IF round.prize_value = <<>> THEN <<"1">>
                                 ELSE round.prize_value
                  days == _parse_positive_int(prize_value, 1)
                  r == extend_subscription(CHOOSE x \in PrizeRows(u) : TRUE,
                                           days)
                  rows == WriteRow(subscriptions, r)
              IN  \E target \in LookupByName(panel, r, user_row, STANDARD, settings) :
                    LET o == update_remnawave_user(r, rows, links, user_row,
                                 panel, settings, fails, target, now)
                    IN  IF raises
                        THEN /\ subscriptions' = rows
                             /\ sync' = SyncFrame("update", STANDARD,
                                           {"raise"}, TRUE, None, None, None,
                                           None, NoStats)
                             /\ UNCHANGED <<panel, next_uuid, user_row, links>>
                        ELSE /\ subscriptions' = o.rows
                             /\ links' = o.links
                             /\ user_row' = o.user_row
                             /\ panel' = o.panel
                             /\ sync' = SyncFrame("update", STANDARD, fails,
                                           o.raised, o.result, o.panel_op,
                                           o.target, None, NoStats)
                             /\ UNCHANGED next_uuid
    /\ UNCHANGED <<round, attempts, besideRows>>
    /\ UNCHANGED <<tariffVars, syncVars>>

InitContest ==
    /\ InitCommon
    /\ TariffIdle
    /\ PanelIdle
    /\ purchases = [c \in ConfirmCalls |-> 0]
    /\ balance = 0
    /\ promo_offer = 0
    /\ promo_group \in PromoGroups
    /\ gate = "ok"
    /\ settings = [TRIAL_ADD_REMAINING_DAYS_TO_PAID |-> TRUE,
                   devices_selection_enabled |-> TRUE,
                   forced_disabled_limit |-> Unset,
                   RESET_TRAFFIC_ON_PAYMENT |-> FALSE, CONNECT_BUTTON_MODE |-> "guide", MINIAPP_CUSTOM_URL |-> None]
    /\ subscriptions = {}
    /\ active = {}
    /\ \E kind \in {"button", "text"}, n \in 1..MaxWinners :
          round = [kind |-> kind, max_winners |-> n, winners_count |-> 0,
                   lock |-> None, prize_value |-> <<"5">>]
    /\ attempts = [u \in ContestUsers |-> NoAttempt]
    /\ ca = [u \in ContestUsers |-> IdleAttemptCall]

NextContest ==
    \E u \in ContestUsers :
        \/ CreatePendingAttempt(u)
        \/ ProcessButtonAttempt(u)
        \/ ProcessTextAttempt(u)
        \/ AtomicWinnerSelect(u)
        \/ AtomicWinnerCommit(u)
        \/ RecordAttempt(u)
        \/ AwardPrize(u)

SpecContest == InitContest /\ [][NextContest]_vars

\* one round and two calls of the same user
InitAttempt ==
    /\ InitCommon
    /\ TariffIdle
    /\ PanelIdle
    /\ purchases = [c \in ConfirmCalls |-> 0]
    /\ balance = 0
    /\ promo_offer = 0
    /\ promo_group \in PromoGroups
    /\ gate = "ok"
    /\ settings = [TRIAL_ADD_REMAINING_DAYS_TO_PAID |-> TRUE,
                   devices_selection_enabled |-> TRUE,
                   forced_disabled_limit |-> Unset,
                   RESET_TRAFFIC_ON_PAYMENT |-> FALSE, CONNECT_BUTTON_MODE |-> "guide", MINIAPP_CUSTOM_URL |-> None]
    /\ subscriptions = {}
    /\ active = {}
    /\ \E kind \in {"button", "text"}, n \in 1..MaxWinners :
          round = [kind |-> kind, max_winners |-> n, winners_count |-> 0,
                   lock |-> None, prize_value |-> <<"5">>]
    /\ attempts = [u \in ContestUsers |-> NoAttempt]
    /\ ca = [u \in AttemptCalls |-> IdleAttemptCall]

NextAttempt ==
    \E u \in AttemptCalls :
        \/ CreatePendingAttempt(u)
        \/ ProcessButtonAttempt(u)
        \/ ProcessTextAttempt(u)
        \/ AtomicWinnerSelect(u)
        \/ AtomicWinnerCommit(u)
        \/ RecordAttempt(u)
        \/ AwardPrize(u)

SpecAttempt == InitAttempt /\ [][NextAttempt]_vars

\* the prize values a template can carry: up to MaxPrizeLen characters
PrizeAlphabet == {"0", "5", "d", "-"}
PrizeValues ==
    UNION {[1..n -> PrizeAlphabet] : n \in 0..MaxPrizeLen}

\* one player of a one-winner round whose prize is days: with or without a
\* standard row, linked to a panel user or not, next to a white row
InitPrize ==
    /\ InitCommon
    /\ TariffIdle
    /\ purchases = [c \in ConfirmCalls |-> 0]
    /\ balance = 0
    /\ promo_offer = 0
    /\ promo_group \in PromoGroups
    /\ gate = "ok"
    /\ active = {}
    /\ settings = [STANDARD_TARIFF_TAG |-> None, WHITE_TARIFF_TAG |-> None]
    /\ sync = IdleSync
    /\ next_uuid = 1
    /\ attempts = [u \in ContestUsers |-> NoAttempt]
    /\ ca = [u \in ContestUsers |-> IdleAttemptCall]
    /\ \E value \in PrizeValues, kind \in {"button", "text"} :
          round = [kind |-> kind, max_winners |-> 1, winners_count |-> 0,
                   lock |-> None, prize_value |-> value]
    /\ \E has_std \in BOOLEAN, std_end \in {TrialRemainingDays, PaidRemainingDays},
          std_uuid \in {None, UuidOf(1)}, in_panel \in BOOLEAN :
          /\ subscriptions =
                (IF has_std
                 THEN {PanelRow(1, STANDARD, std_end, {"sq_std"}, std_uuid)}
                 ELSE {})
                \cup {PanelRow(2, WHITE, WhiteUnlimitedEndDate, {"sq_white"},
                               None)}
          /\ user_row = [remnawave_uuid |-> std_uuid,
                         base_username |-> Username("u", FALSE)]
          /\ links = [i \in RowIds |->
                        IF i = 1 /\ std_uuid # None THEN LinksOf(std_uuid)
                        ELSE NoLinks]
          /\ panel = IF in_panel
                     THEN {[uuid |-> UuidOf(1),
                            username |-> Username("u", FALSE),
                            telegram_id |-> TelegramId, tag |-> "PAID",
                            status |-> "ACTIVE"]}
                     ELSE {}

NextPrize ==
    \/ CreatePendingAttempt("p1")
    \/ ProcessButtonAttempt("p1")
    \/ ProcessTextAttempt("p1")
    \/ AtomicWinnerSelect("p1")
    \/ AtomicWinnerCommit("p1")
    \/ RecordAttempt("p1")
    \/ AwardPrize("p1")

SpecPrize == InitPrize /\ [][NextPrize]_vars

(***************************************************************************)
(* The automatic purchase of the saved white cart after a top-up.          *)
(***************************************************************************)
\* _auto_purchase_white_cart_after_topup: the existing white row rewritten
AutoMergeWhite(ex, traffic_gb, countries) ==
    [ex EXCEPT !.is_trial = FALSE, !.status = "active",
               !.end_date = WhiteUnlimitedEndDate,
               !.connected_squads = countries,
               !.traffic_limit_gb =
                   IF traffic_gb = 0 THEN 0
                   ELSE IF @ # 0 THEN @ + traffic_gb ELSE @,
               !.purchased_traffic_gb =
                   IF traffic_gb = 0 THEN 0 ELSE @ + traffic_gb]

\* _auto_purchase_white_cart_after_topup: the white row it creates
AutoNewWhite(id, traffic_gb, countries, period_days, t) ==
    [create_paid_subscription(id, UserId, WHITE, t,
                              IF period_days = 0 THEN 30 ELSE period_days,
                              traffic_gb, 0, countries)
        EXCEPT !.end_date = WhiteUnlimitedEndDate,
               !.purchased_traffic_gb = traffic_gb]

\* an auto-purchase that does not read its configuration flag
AutoDeclines_FlagIgnored(st, bal, countries, final_price) ==
    countries = {} \/ final_price <= 0 \/ bal < final_price

\* _auto_purchase_white_cart_after_topup: the early returns of False
AutoDeclines(st, bal, countries, final_price) ==
    \/ ~st.AUTO_PURCHASE_AFTER_TOPUP_ENABLED
    \/ countries = {}
    \/ final_price <= 0
    \/ bal < final_price

\* the frame a call of the auto-purchase leaves in cp
AutoFrame(result, existing, final_price, sub_id, calls, ok) ==
    [IdleFrame EXCEPT !.pc = "done", !.result = result, !.data = cart.data,
                      !.final_price = final_price, !.balance_before = balance,
                      !.existing = existing, !.current_time = now,
                      !.sub_id = sub_id, !.granted = sub_id # 0,
                      !.panel_calls = calls, !.panel_ok = ok,
                      !.tx_before = Len(transactions),
                      !.completed = result = "True"]

\* _auto_purchase_white_cart_after_topup(db, user, cart_data)
AutoPurchaseWhiteCart(c) ==
    /\ c \in active
    /\ cp[c].pc = "idle"
    /\ cart.saved_cart /\ cart.data.tariff_code = WHITE
    /\ LET traffic_gb == cart.data.final_traffic_gb
           countries == cart.data.countries
           final_price == cart.data.total_price
           existing == get_subscription_by_user_id(subscriptions, UserId,
                                                   WHITE, now)
           rows1 == TableAfterGet(subscriptions, UserId, WHITE, now)
           sub_id == IF existing.id # 0 THEN existing.id ELSE next_id
           rows2 == IF existing.id # 0
                    THEN WriteRow(rows1, AutoMergeWhite(existing, traffic_gb,
                                                        countries))
                    ELSE rows1 \cup {AutoNewWhite(next_id, traffic_gb,
                                         countries, cart.data.period_days,
                                         now)}
       IN  IF AutoDeclines(settings, balance, countries, final_price)
           THEN /\ cp' = [cp EXCEPT ![c] =
                             AutoFrame("False", NoRow, final_price, 0, 0, FALSE)]
                /\ UNCHANGED <<balance, promo_offer, subscriptions, next_id,
                               transactions, cart, checkout_draft,
                               squad_users>>
           ELSE \E db_ok \in BOOLEAN, first_ok \in BOOLEAN, retry_ok \in BOOLEAN :
                  IF ~(db_ok /\ SubtractOk(balance, final_price))
                  THEN /\ cp' = [cp EXCEPT ![c] =
                                    AutoFrame("False", NoRow, final_price, 0,
                                              0, FALSE)]
                       /\ UNCHANGED <<balance, promo_offer, subscriptions,
                                      next_id, transactions, cart,
                                      checkout_draft, squad_users>>
                  ELSE /\ balance' = balance - final_price
                       /\ promo_offer' =
                             IF cart.data.promo_offer_discount_value > 0
                             THEN 0 ELSE promo_offer
                       /\ subscriptions' =
                             IF first_ok \/ retry_ok
                             THEN PanelSynced(rows2, sub_id) ELSE rows2
                       /\ next_id' = IF existing.id # 0 THEN next_id
                                     ELSE next_id + 1
                       /\ squad_users' =
                             add_user_to_servers(squad_users, countries)
                       /\ transactions' =
                             Append(transactions,
                                    [type |-> "SUBSCRIPTION_PAYMENT",
                                     user_id |-> UserId,
                                     amount_kopeks |-> final_price])
                       /\ cart' = NoCart
                       /\ checkout_draft' = EmptyData
                       /\ cp' = [cp EXCEPT ![c] =
                                    AutoFrame("True", existing, final_price,
                                              sub_id,
                                              IF first_ok THEN 1 ELSE 2,
                                              first_ok \/ retry_ok)]
    /\ UNCHANGED <<now, promo_group, gate, settings, fsm_data, fsm_state,
                   active, purchases, crud>>
    /\ UNCHANGED <<contestVars, panelVars, tariffVars, syncVars>>

\* a payment credited to the balance while a cart is saved
TopUp ==
    /\ cart.saved_cart
    /\ balance < cart.data.total_price
    /\ \E amount \in {cart.missing_amount, cart.missing_amount \div 2} :
          amount > 0 /\ balance' = balance + amount
    /\ UNCHANGED <<now, promo_offer, promo_group, gate, settings,
                   subscriptions, next_id, transactions, cart, checkout_draft,
                   fsm_data, fsm_state, cp, active, purchases, squad_users,
                   crud>>
    /\ UNCHANGED <<contestVars, panelVars, tariffVars, syncVars>>

\* a white row whose device_limit another writer set (the panel import, the
\* repository's default of 1)
WhiteWithDevices ==
    Row(2, UserId, WHITE, "active", FALSE, 0 - 7, WhiteUnlimitedEndDate,
        50, 10, DEFAULT_DEVICE_LIMIT, {"sq_white"}, 5, "pu_white")

\* a saved white cart, a balance below its price, the flag on or off
InitAuto ==
    /\ scan = IdleScan
    /\ push = IdlePush
    /\ dev_patch = IdleDevicesPatch
    /\ ui = IdleUi
    /\ now = 0
    /\ next_id = 3
    /\ transactions = <<>>
    /\ fsm_data = EmptyData
    /\ fsm_state = None
    /\ cp = [c \in ConfirmCalls |-> IdleFrame]
    /\ squad_users = [q \in {"sq_std", "sq_white"} |-> 0]
    /\ crud = [k \in CrudCallers |-> IdleCrud]
    /\ TariffIdle
    /\ PanelIdle
    /\ ContestIdle
    /\ purchases = [c \in ConfirmCalls |-> 0]
    /\ promo_group \in PromoGroups
    /\ gate = "ok"
    /\ active = {"c1"}
    /\ balance \in {0, 5000}
    /\ promo_offer \in PromoOffers
    /\ \E on \in BOOLEAN :
          settings = [TRIAL_ADD_REMAINING_DAYS_TO_PAID |-> TRUE,
                      devices_selection_enabled |-> TRUE,
                      forced_disabled_limit |-> Unset,
                      RESET_TRAFFIC_ON_PAYMENT |-> FALSE, CONNECT_BUTTON_MODE |-> "guide", MINIAPP_CUSTOM_URL |-> None,
                      AUTO_PURCHASE_AFTER_TOPUP_ENABLED |-> on]
    /\ subscriptions \in {{}, {WhiteLimited}, {WhiteUnlimited},
                           {WhiteWithDevices}, {StdPaidActive, WhiteLimited},
                           {StdPaidActive}}
    /\ \E traffic \in {0, 20} :
          LET d == _prepare_subscription_summary(WHITE, 0, traffic, 0,
                       settings, promo_group, promo_offer)
          IN  /\ cart = [saved_cart |-> TRUE, user_id |-> UserId,
                      missing_amount |-> MissingKopeks(d.total_price, balance),
                      data |-> d]
              /\ checkout_draft = d

NextAuto == TopUp \/ AutoPurchaseWhiteCart("c1")

SpecAuto == InitAuto /\ [][NextAuto]_vars


(***************************************************************************)
(* sync_users_from_panel: the scan over the panel's users with its batched *)
(* commits, and the clean-up pass of a full synchronisation.  The session  *)
(* is the subscriptions table, links and scan.users; scan.committed is     *)
(* what the last commit stored.                                            *)
(***************************************************************************)
\* batch_size (50 in the source), scaled down
batch_size == 2
MaxScanUsers == 3
SyncTypes == {"all", "new_only", "update_only"}

\* User.id of the User row of a Telegram id, and back
UserOf(tg) == IF tg = TelegramId THEN UserId ELSE "u2"
TelegramOf(uid) == IF uid = UserId THEN TelegramId ELSE "tg2"

\* one element of panel_users: the fields of the panel user the scan reads
PanelDict(x, expire_at, devices) ==
    [uuid |-> x.uuid, username |-> x.username, telegramId |-> x.telegram_id,
     tag |-> x.tag, status |-> x.status, expireAt |-> expire_at,
     hwidDeviceLimit |-> devices, trafficLimitGb |-> 0, usedTrafficGb |-> 0,
     activeInternalSquads |-> {"sq_std"}]

_detect_tariff_from_panel_user(x, st) ==
    IF x.tag # None /\ st.WHITE_TARIFF_TAG # None
       /\ x.tag = st.WHITE_TARIFF_TAG
    THEN WHITE
    ELSE IF x.tag # None /\ st.STANDARD_TARIFF_TAG # None
            /\ x.tag = st.STANDARD_TARIFF_TAG
    THEN STANDARD
    ELSE IF x.username.suffixed THEN WHITE ELSE STANDARD

\* panel_keys and panel_uuid_set of the scan
PanelKeys(pus, st) ==
    {<<pus[n].telegramId, _detect_tariff_from_panel_user(pus[n], st)>> :
        n \in DOMAIN pus}
PanelUuidSet(pus) == {pus[n].uuid : n \in DOMAIN pus} \ {None}

PanelDeviceLimit(x) ==
    IF x.hwidDeviceLimit = Unset THEN DEFAULT_DEVICE_LIMIT
    ELSE x.hwidDeviceLimit

_create_subscription_from_panel_data(id, uid, x, tariff, t) ==
    LET status == IF x.status = "ACTIVE" /\ x.expireAt > t THEN "active"
                  ELSE IF x.expireAt <= t THEN "expired"
                  ELSE "disabled"
    IN  Row(id, uid, tariff, status, FALSE, t, x.expireAt, x.trafficLimitGb,
            0, PanelDeviceLimit(x), x.activeInternalSquads, x.usedTrafficGb,
            x.uuid)

\* the row _update_subscription_from_panel_data leaves of an existing row
UpdatedFromPanel(r, x, t) ==
    LET new_status ==
            IF x.status = "ACTIVE" /\ x.expireAt > t THEN "active"
            ELSE IF x.expireAt <= t THEN "expired"
            ELSE IF x.status = "DISABLED" THEN "disabled"
            ELSE r.status
    IN  [r EXCEPT !.end_date = x.expireAt,
                  !.status = new_status,
                  !.traffic_used_gb = x.usedTrafficGb,
                  !.traffic_limit_gb = x.trafficLimitGb,
                  !.device_limit = PanelDeviceLimit(x),
                  !.remnawave_uuid = IF x.uuid # None THEN x.uuid ELSE @,
                  !.connected_squads = x.activeInternalSquads]

\* _update_subscription_from_panel_data: the table it leaves; without a row
\* of the tariff it creates one, and `swallowed` is a failure inside the
\* creation, which is logged and not raised
_update_subscription_from_panel_data(rows, id, uid, x, tariff, t, swallowed) ==
    LET found == RowsOf(rows, uid, tariff)
    IN  IF found = {}
        THEN IF swallowed THEN rows
             ELSE rows \cup {_create_subscription_from_panel_data(
                                 id, uid, x, tariff, t)}
        ELSE LET r == Latest(found)
             IN  (rows \ {r}) \cup {UpdatedFromPanel(r, x, t)}

\* _ensure_user_remnawave_uuid: the User row takes the panel user's UUID
_ensure_user_remnawave_uuid(u, panel_uuid) ==
    IF panel_uuid # None THEN [u EXCEPT !.remnawave_uuid = panel_uuid] ELSE u

\* db.rollback() and the rollback of the pending UUID mutations: the session
\* returns to the last commit; bot_users_by_telegram_id keeps its entries
RolledBackUsers(s) ==
    [tg \in TelegramIds |->
        [exists |-> s.users[tg].exists,
         remnawave_uuid |-> s.committed.users[tg].remnawave_uuid]]

\* the second-pass test of a row: neither its key nor its UUID is on the panel
Deactivates(r, keys, uuids) ==
    /\ <<TelegramOf(r.user_id), r.tariff_code>> \notin keys
    /\ ~(r.remnawave_uuid # None /\ r.remnawave_uuid \in uuids)

\* the row the second pass leaves of a row it deactivates
Deactivated(r, t) ==
    [r EXCEPT !.status = "disabled", !.is_trial = TRUE, !.end_date = t,
              !.traffic_limit_gb = 0, !.traffic_used_gb = 0,
              !.device_limit = DEFAULT_DEVICE_LIMIT,
              !.connected_squads = {}, !.remnawave_uuid = None]

\* the call fetches the panel's users and loads the bot's users
SyncFromPanelStart(sync_type) ==
    /\ scan.pc = "idle"
    /\ \E first_expire \in {0 - 1, PaidRemainingDays} :
          LET all == [n \in 1..Cardinality(panel) |->
                        LET x == CHOOSE y \in panel : y.uuid = UuidOf(n)
                        IN  PanelDict(x,
                                IF n = 1 THEN first_expire
                                ELSE PaidRemainingDays,
                                IF n = 1 THEN Unset ELSE 2)]
              with_tg == SelectSeq(all, LAMBDA x : x.telegramId # None)
          IN  scan' = [scan EXCEPT
                  !.pc = IF with_tg = <<>> THEN "final_commit" ELSE "users",
                  !.sync_type = sync_type,
                  !.panel_users = with_tg,
                  !.committed = [rows |-> subscriptions, links |-> links,
                                 users |-> scan.users]]
    /\ UNCHANGED <<subscriptions, panelVars, push, dev_patch, ui>>
    /\ UNCHANGED <<besideRows, contestVars, tariffVars>>

\* one iteration of the loop over panel_users_with_tg, with the batch commit
\* that follows it
SyncFromPanelUser ==
    /\ scan.pc = "users"
    /\ \E outcome \in {"ok", "raises", "no_user", "swallowed"},
          commit_fails \in BOOLEAN :
          LET n == scan.i + 1
              x == scan.panel_users[n]
              tg == x.telegramId
              uid == UserOf(tg)
              tariff == _detect_tariff_from_panel_user(x, settings)
              known == scan.users[tg].exists
              acts == IF known THEN scan.sync_type \in {"update_only", "all"}
                      ELSE scan.sync_type \in {"new_only", "all"}
              creates == ~known \/ RowsOf(subscriptions, uid, tariff) = {}
              skipped == outcome \in {"raises", "no_user"}
              at_batch == ~skipped /\ n % batch_size = 0
              table == IF known
                       THEN _update_subscription_from_panel_data(
                                subscriptions, next_id, uid, x, tariff, now,
                                outcome = "swallowed")
                       ELSE IF outcome = "swallowed" THEN subscriptions
                       ELSE subscriptions \cup
                                {_create_subscription_from_panel_data(
                                     next_id, uid, x, tariff, now)}
              written == table # subscriptions
              target == IF RowsOf(subscriptions, uid, tariff) = {} THEN next_id
                        ELSE Latest(RowsOf(subscriptions, uid, tariff)).id
              new_links == IF outcome = "swallowed" \/ x.uuid = None THEN links
                           ELSE (target :> LinksOf(x.uuid)) @@ links
              user_after == IF tariff = STANDARD
                            THEN _ensure_user_remnawave_uuid(
                                     [scan.users[tg] EXCEPT !.exists = TRUE],
                                     x.uuid)
                            ELSE [scan.users[tg] EXCEPT !.exists = TRUE]
              users_after == [scan.users EXCEPT ![tg] = user_after]
              stats_after == IF known
                             THEN [scan.stats EXCEPT !.updated = @ + 1]
                             ELSE [scan.stats EXCEPT !.created = @ + 1]
              advanced == [scan EXCEPT
                              !.i = n,
                              !.processed = @ \cup {n},
                              !.pc = IF n = Len(scan.panel_users)
                                     THEN "final_commit" ELSE "users"]
          IN  /\ outcome = "no_user" => acts /\ ~known
              /\ outcome = "raises" => acts
              /\ outcome = "swallowed" => acts /\ creates
              /\ commit_fails => at_batch
              /\ IF ~acts
                 THEN \* the synchronisation type leaves this user alone
                      /\ subscriptions' = IF at_batch /\ commit_fails
                                          THEN scan.committed.rows
                                          ELSE subscriptions
                      /\ links' = IF at_batch /\ commit_fails
                                  THEN scan.committed.links ELSE links
                      /\ UNCHANGED next_id
                      /\ scan' = IF at_batch /\ commit_fails
                                 THEN [advanced EXCEPT
                                         !.stats.errors = @ + batch_size,
                                         !.failures.batch = @ + 1,
                                         !.users = RolledBackUsers(scan)]
                                 ELSE IF at_batch
                                 THEN [advanced EXCEPT
                                         !.committed =
                                             [rows |-> subscriptions,
                                              links |-> links,
                                              users |-> scan.users]]
                                 ELSE advanced
                 ELSE IF outcome = "no_user"
                 THEN \* _get_or_create_bot_user_from_panel gave no user
                      /\ UNCHANGED <<subscriptions, links, next_id>>
                      /\ scan' = [advanced EXCEPT !.stats.errors = @ + 1,
                                                  !.failures.no_user = @ + 1]
                 ELSE IF outcome = "raises"
                 THEN \* except Exception: rollback and continue
                      /\ subscriptions' = scan.committed.rows
                      /\ links' = scan.committed.links
                      /\ UNCHANGED next_id
                      /\ scan' = [advanced EXCEPT
                                     !.stats.errors = @ + 1,
                                     !.failures.user = @ + 1,
                                     !.users = RolledBackUsers(scan)]
                 ELSE IF at_batch /\ commit_fails
                 THEN \* the batch commit fails: rollback, batch_size errors
                      /\ subscriptions' = scan.committed.rows
                      /\ links' = scan.committed.links
                      /\ next_id' = IF written /\ creates THEN next_id + 1
                                    ELSE next_id
                      /\ scan' = [advanced EXCEPT
                                     !.stats = [stats_after EXCEPT
                                                  !.errors = @ + batch_size],
                                     !.failures.batch = @ + 1,
                                     !.failures.swallowed =
                                         IF outcome = "swallowed" THEN @ + 1
                                         ELSE @,
                                     !.users = RolledBackUsers(
                                         [scan EXCEPT !.users = users_after])]
                 ELSE /\ subscriptions' = table
                      /\ links' = new_links
                      /\ next_id' = IF written /\ creates THEN next_id + 1
                                    ELSE next_id
                      /\ scan' = [advanced EXCEPT
                                     !.stats = stats_after,
                                     !.failures.swallowed =
                                         IF outcome = "swallowed" THEN @ + 1
                                         ELSE @,
                                     !.users = users_after,
                                     !.committed =
                                         IF at_batch
                                         THEN [rows |-> table,
                                               links |-> new_links,
                                               users |-> users_after]
                                         ELSE @]
    /\ UNCHANGED <<panel, next_uuid, user_row, sync, push, dev_patch, ui>>
    /\ UNCHANGED <<now, balance, promo_offer, promo_group, gate, settings, transactions, cart, checkout_draft, fsm_data, fsm_state, cp, active, purchases, squad_users, crud>>
    /\ UNCHANGED <<contestVars, tariffVars>>

\* the commit after the loop: a failure is rolled back and not counted
SyncFromPanelFinalCommit ==
    /\ scan.pc = "final_commit"
    /\ \E commit_fails \in BOOLEAN :
          LET next_pc == IF scan.sync_type = "all" THEN "cleanup" ELSE "done"
          IN  IF commit_fails
              THEN /\ subscriptions' = scan.committed.rows
                   /\ links' = scan.committed.links
                   /\ scan' = [scan EXCEPT !.pc = next_pc,
                                           !.failures.final = @ + 1,
                                           !.users = RolledBackUsers(scan)]
              ELSE /\ UNCHANGED <<subscriptions, links>>
                   /\ scan' = [scan EXCEPT
                                  !.pc = next_pc,
                                  !.committed = [rows |-> subscriptions,
                                                 links |-> links,
                                                 users |-> scan.users]]
    /\ UNCHANGED <<panel, next_uuid, user_row, sync, push, dev_patch, ui>>
    /\ UNCHANGED <<besideRows, contestVars, tariffVars>>

\* the second pass of a full synchronisation
SyncFromPanelCleanup ==
    /\ scan.pc = "cleanup"
    /\ \E raises \in BOOLEAN :
          LET keys == PanelKeys(scan.panel_users, settings)
              uuids == PanelUuidSet(scan.panel_users)
              gone == {r \in subscriptions : Deactivates(r, keys, uuids)}
              table == (subscriptions \ gone)
                       \cup {Deactivated(r, now) : r \in gone}
              new_links == [id \in DOMAIN links |->
                              IF \E r \in gone : r.id = id THEN NoLinks
                              ELSE links[id]]
              users_after ==
                  [tg \in TelegramIds |->
                      IF \E r \in gone :
                            /\ TelegramOf(r.user_id) = tg
                            /\ r.tariff_code = STANDARD
                            /\ scan.users[tg].remnawave_uuid = r.remnawave_uuid
                      THEN [scan.users[tg] EXCEPT !.remnawave_uuid = None]
                      ELSE scan.users[tg]]
          IN  IF raises
              THEN /\ UNCHANGED <<subscriptions, links>>
                   /\ scan' = [scan EXCEPT !.pc = "done"]
              ELSE /\ subscriptions' = table
                   /\ links' = new_links
                   /\ scan' = [scan EXCEPT
                                  !.pc = "done",
                                  !.stats.deleted = @ + Cardinality(gone),
                                  !.users = users_after,
                                  !.committed = [rows |-> table,
                                                 links |-> new_links,
                                                 users |-> users_after],
                                  !.cleanup = [ran |-> TRUE,
                                               rows |-> subscriptions]]
    /\ UNCHANGED <<panel, next_uuid, user_row, sync, push, dev_patch, ui>>
    /\ UNCHANGED <<besideRows, contestVars, tariffVars>>

\* the local rows and the panel's users a synchronisation starts from
ScanRow(id, uid, tariff, uuid) ==
    Row(id, uid, tariff, "active", FALSE, 0 - 4, PaidRemainingDays, 10, 0,
        DEFAULT_DEVICE_LIMIT, {"sq_std"}, 0, uuid)

InitFromPanel ==
    /\ now = 0
    /\ next_id = 3
    /\ transactions = <<>>
    /\ cart = NoCart
    /\ checkout_draft = EmptyData
    /\ fsm_data = EmptyData
    /\ fsm_state = None
    /\ cp = [c \in ConfirmCalls |-> IdleFrame]
    /\ squad_users = [q \in {"sq_std", "sq_white"} |-> 0]
    /\ crud = [k \in CrudCallers |-> IdleCrud]
    /\ push = IdlePush
    /\ dev_patch = IdleDevicesPatch
    /\ ui = IdleUi
    /\ TariffIdle
    /\ ContestIdle
    /\ purchases = [c \in ConfirmCalls |-> 0]
    /\ balance = 0
    /\ promo_offer = 0
    /\ promo_group = CHOOSE g \in PromoGroups : TRUE
    /\ gate = "ok"
    /\ active = {}
    /\ settings = [STANDARD_TARIFF_TAG |-> None, WHITE_TARIFF_TAG |-> "WHT"]
    /\ sync = IdleSync
    /\ user_row = [remnawave_uuid |-> None,
                   base_username |-> Username("u", FALSE)]
    /\ \E std_uuid \in {None, UuidOf(1), "stale"}, has_white \in BOOLEAN :
          /\ subscriptions =
                {ScanRow(1, UserId, STANDARD, std_uuid)}
                \cup IF has_white THEN {ScanRow(2, UserId, WHITE, None)}
                     ELSE {}
          /\ links = [i \in RowIds |->
                        IF i = 1 /\ std_uuid # None THEN LinksOf(std_uuid)
                        ELSE NoLinks]
          /\ scan = [IdleScan EXCEPT
                        !.users["tg1"] = [exists |-> TRUE,
                                          remnawave_uuid |-> std_uuid]]
    /\ \E k \in 0..MaxScanUsers :
       \E tgs \in [1..k -> TelegramIds], white \in [1..k -> BOOLEAN],
          first_status \in {"ACTIVE", "DISABLED"} :
          /\ panel = {[uuid |-> UuidOf(n),
                       username |-> Username("u", white[n] /\ n > 1),
                       telegram_id |-> tgs[n],
                       tag |-> IF white[n] /\ n = 1 THEN "WHT" ELSE None,
                       status |-> IF n = 1 THEN first_status ELSE "ACTIVE"] :
                      n \in 1..k}
          /\ next_uuid = k

NextFromPanel ==
    \/ \E sync_type \in SyncTypes : SyncFromPanelStart(sync_type)
    \/ SyncFromPanelUser
    \/ SyncFromPanelFinalCommit
    \/ SyncFromPanelCleanup

SpecFromPanel == InitFromPanel /\ [][NextFromPanel]_vars


(***************************************************************************)
(* sync_users_to_panel: the tasks of one batch.  What a body writes to the *)
(* panel is process_subscription above; here are the semaphore, the gather *)
(* and the commit of the batch.                                            *)
(***************************************************************************)
concurrent_limit == 5
MaxBatch == 6
BatchIds == 1..MaxBatch

\* `async with semaphore`: asyncio.Semaphore.acquire returns while the
\* counter is positive
SemaphoreFree_Always(value) == TRUE
SemaphoreFree(value) == value > 0

\* valid_subscriptions: the rows of the batch that have a user
ValidSubscriptions(rows) == {r.id : r \in {q \in rows : q.user_id # None}}

InFlight(p) == {id \in DOMAIN p.task : p.task[id] = "running"}

\* asyncio.gather returns when every task it was given has finished
GatherReturns(p) == \A id \in p.valid : p.task[id] = "done"

\* the batch is read and one task per valid subscription is created
PushStart ==
    /\ push.pc = "idle"
    /\ push' = [pc |-> "tasks",
                valid |-> ValidSubscriptions(subscriptions),
                semaphore |-> concurrent_limit,
                task |-> [id \in {r.id : r \in subscriptions} |->
                            IF id \in ValidSubscriptions(subscriptions)
                            THEN "waiting" ELSE "none"],
                runs |-> [id \in {r.id : r \in subscriptions} |-> 0],
                result |-> [id \in {r.id : r \in subscriptions} |-> None],
                peak |-> 0,
                stats |-> NoStats,
                commit |-> [done |-> FALSE, unfinished |-> {}]]
    /\ UNCHANGED <<subscriptions, panelVars, scan, dev_patch, ui>>
    /\ UNCHANGED <<besideRows, contestVars, tariffVars>>

\* a task enters the body of process_subscription
TaskEnter(id) ==
    /\ push.pc = "tasks"
    /\ id \in DOMAIN push.task
    /\ push.task[id] = "waiting"
    /\ SemaphoreFree(push.semaphore)
    /\ push' = [push EXCEPT
                  !.task[id] = "running",
                  !.semaphore = @ - 1,
                  !.runs[id] = @ + 1,
                  !.peak = Max(@, Cardinality(InFlight(push)) + 1)]
    /\ UNCHANGED <<subscriptions, panelVars, scan, dev_patch, ui>>
    /\ UNCHANGED <<besideRows, contestVars, tariffVars>>

\* the body returns its result and leaves the semaphore
TaskReturn(id) ==
    /\ push.pc = "tasks"
    /\ id \in DOMAIN push.task
    /\ push.task[id] = "running"
    /\ \E action \in {"created", "updated", "error"} :
          push' = [push EXCEPT
                      !.task[id] = "done",
                      !.semaphore = @ + 1,
                      !.result[id] = action]
    /\ UNCHANGED <<subscriptions, panelVars, scan, dev_patch, ui>>
    /\ UNCHANGED <<besideRows, contestVars, tariffVars>>

\* gather has returned: the results are counted and the batch is committed
PushCommit ==
    /\ push.pc = "tasks"
    /\ GatherReturns(push)
    /\ \E commit_fails \in BOOLEAN :
          LET count(a) == Cardinality({id \in push.valid : push.result[id] = a})
              counted == [created |-> count("created"),
                          updated |-> count("updated"),
                          errors |-> count("error")]
          IN  push' = [push EXCEPT
                  !.pc = "done",
                  !.stats = IF commit_fails
                            THEN [counted EXCEPT
                                    !.errors = @ + Cardinality(push.valid)]
                            ELSE counted,
                  !.commit = [done |-> TRUE,
                              unfinished |->
                                  {id \in push.valid : push.task[id] # "done"}]]
    /\ UNCHANGED <<subscriptions, panelVars, scan, dev_patch, ui>>
    /\ UNCHANGED <<besideRows, contestVars, tariffVars>>

InitPush ==
    /\ now = 0
    /\ next_id = MaxBatch + 1
    /\ transactions = <<>>
    /\ cart = NoCart
    /\ checkout_draft = EmptyData
    /\ fsm_data = EmptyData
    /\ fsm_state = None
    /\ cp = [c \in ConfirmCalls |-> IdleFrame]
    /\ squad_users = [q \in {"sq_std", "sq_white"} |-> 0]
    /\ crud = [k \in CrudCallers |-> IdleCrud]
    /\ scan = IdleScan
    /\ push = IdlePush
    /\ dev_patch = IdleDevicesPatch
    /\ ui = IdleUi
    /\ TariffIdle
    /\ ContestIdle
    /\ PanelIdle
    /\ purchases = [c \in ConfirmCalls |-> 0]
    /\ balance = 0
    /\ promo_offer = 0
    /\ promo_group = CHOOSE g \in PromoGroups : TRUE
    /\ gate = "ok"
    /\ active = {}
    /\ settings = [STANDARD_TARIFF_TAG |-> None, WHITE_TARIFF_TAG |-> None]
    /\ \E size \in 0..MaxBatch, orphans \in {{}, {1}} :
          subscriptions =
              {ScanRow(id, IF id \in orphans THEN None
                           ELSE "u" \o ToString(id), STANDARD, None) :
                  id \in 1..size}

NextPush ==
    \/ PushStart
    \/ \E id \in BatchIds : TaskEnter(id)
    \/ \E id \in BatchIds : TaskReturn(id)
    \/ PushCommit

SpecPush == InitPush /\ [][NextPush]_vars

(***************************************************************************)
(* A finite white package bought for a white row whose limit is 0 without  *)
(* an unlimited purchase: the row the deactivation pass of                 *)
(* sync_users_from_panel reset, and the row created from panel data.       *)
(***************************************************************************)
\* WhiteLimited after the deactivation pass of a full synchronisation
WhiteResetBySync == Deactivated(WhiteLimited, 0)

\* a white row created from a panel user whose trafficLimitBytes is 0
WhiteFromPanel ==
    _create_subscription_from_panel_data(2, UserId,
        [uuid |-> "pu_white", status |-> "ACTIVE",
         expireAt |-> PaidRemainingDays, hwidDeviceLimit |-> Unset,
         trafficLimitGb |-> 0, usedTrafficGb |-> 0,
         activeInternalSquads |-> {"sq_white"}], WHITE, 0)

\* one purchase, by the confirm tap or by the saved cart after a top-up
InitWhiteReset ==
    /\ scan = IdleScan
    /\ push = IdlePush
    /\ dev_patch = IdleDevicesPatch
    /\ ui = IdleUi
    /\ now = 0
    /\ next_id = 3
    /\ transactions = <<>>
    /\ fsm_data = EmptyData
    /\ fsm_state = None
    /\ cp = [c \in ConfirmCalls |-> IdleFrame]
    /\ squad_users = [q \in {"sq_std", "sq_white"} |-> 0]
    /\ crud = [k \in CrudCallers |-> IdleCrud]
    /\ TariffIdle
    /\ PanelIdle
    /\ ContestIdle
    /\ purchases = [c \in ConfirmCalls |-> 0]
    /\ promo_group \in PromoGroups
    /\ gate = "ok"
    /\ active = {"c1"}
    /\ balance \in {5000, 100000}
    /\ promo_offer \in {0, 4}
    /\ settings = [TRIAL_ADD_REMAINING_DAYS_TO_PAID |-> TRUE,
                   devices_selection_enabled |-> TRUE,
                   forced_disabled_limit |-> Unset,
                   RESET_TRAFFIC_ON_PAYMENT |-> FALSE,
                   CONNECT_BUTTON_MODE |-> "guide",
                   MINIAPP_CUSTOM_URL |-> None,
                   AUTO_PURCHASE_AFTER_TOPUP_ENABLED |-> TRUE]
    /\ subscriptions \in {{WhiteResetBySync}, {WhiteFromPanel},
                           {WhiteLimited}, {StdPaidActive, WhiteResetBySync}}
    /\ \E saved \in BOOLEAN :
          LET d == _prepare_subscription_summary(WHITE, 0, 20, 0, settings,
                       promo_group, promo_offer)
          IN  IF saved
              THEN /\ cart = [saved_cart |-> TRUE, user_id |-> UserId,
                          missing_amount |->
                              MissingKopeks(d.total_price, balance),
                          data |-> d]
                   /\ checkout_draft = d
              ELSE /\ cart = NoCart
                   /\ checkout_draft = EmptyData

NextWhiteReset ==
    \/ PrepareOneDraft
    \/ TopUp
    \/ AutoPurchaseWhiteCart("c1")
    \/ \E c \in ConfirmCalls :
          \/ ConfirmGate(c)
          \/ ConfirmPrice(c)
          \/ ConfirmGetExisting(c)
          \/ ConfirmMutate(c)
          \/ ConfirmServers(c)
          \/ ConfirmPanel(c)
          \/ ConfirmRetry(c)
          \/ ConfirmLedger(c)
          \/ ConfirmMessage(c)
          \/ ConfirmCleanup(c)
          \/ ConfirmRaise(c)
          \/ ConfirmExcept(c)

SpecWhiteReset == InitWhiteReset /\ [][NextWhiteReset]_vars

(***************************************************************************)
(* The device handlers of the standard subscription: the wrappers that     *)
(* override two functions of the devices module and two attributes of      *)
(* db_user around the wrapped handler.                                     *)
(***************************************************************************)
\* the closures one call of the monthly-pricing wrapper creates
MonthlyPrice(h) == "_monthly_price@" \o h
OneMonth(h) == "_one_month@" \o h

\* the wrappers with the monthly pricing, and one without it
MonthlyHandlers == {"confirm_change_devices", "execute_change_devices"}
DeviceHandlers == MonthlyHandlers \cup {"handle_change_devices"}

\* the user of a device call: the calls are updates of two users
DeviceUserOf(h) == IF h = "h1" THEN UserId ELSE "u2"

\* _run_with_standard_subscription_monthly_pricing up to the first await
\* of _run_with_standard_subscription (the lookup of the standard row); the
\* other wrappers start at that lookup
DeviceHandlerEnters(h) ==
    /\ dev_patch.call[h].pc = "idle"
    /\ dev_patch.call[h].runs < MaxDeviceCalls
    /\ \E name \in DeviceHandlers, uuid \in {None, "pu_user"} :
          LET frame == [IdleDeviceCall EXCEPT
                           !.pc = "lookup", !.handler = name,
                           !.runs = dev_patch.call[h].runs + 1,
                           !.db_user.remnawave_uuid = uuid,
                           !.before.remnawave_uuid = uuid]
          IN  IF name \in MonthlyHandlers
              THEN dev_patch' =
                     [calculate_prorated_price |-> MonthlyPrice(h),
                      get_remaining_months |-> OneMonth(h),
                      call |-> [dev_patch.call EXCEPT ![h] =
                          [frame EXCEPT
                              !.original_calc =
                                  dev_patch.calculate_prorated_price,
                              !.original_remaining =
                                  dev_patch.get_remaining_months]]]
              ELSE dev_patch' = [dev_patch EXCEPT !.call[h] = frame]
    /\ UNCHANGED <<subscriptions, besideRows, panelVars, contestVars,
                   tariffVars, scan, push, ui>>

\* the finally block of the monthly-pricing wrapper
RestoreDevicesModule(d, h) ==
    IF d.call[h].handler \in MonthlyHandlers
    THEN [d EXCEPT !.calculate_prorated_price = d.call[h].original_calc,
                   !.get_remaining_months = d.call[h].original_remaining]
    ELSE d

\* _run_with_standard_subscription from the lookup's answer to the next
\* await: the alert for a missing row, or the overrides of db_user and the
\* call of the wrapped handler
DeviceLookupReturns(h) ==
    /\ dev_patch.call[h].pc = "lookup"
    /\ LET subscription ==
               get_subscription_by_user_id(subscriptions, DeviceUserOf(h),
                                           STANDARD, now)
           user_uuid == dev_patch.call[h].db_user.remnawave_uuid
           effective_uuid ==
               IF subscription.remnawave_uuid # None
               THEN subscription.remnawave_uuid ELSE user_uuid
       IN  /\ subscriptions' =
                 TableAfterGet(subscriptions, DeviceUserOf(h), STANDARD, now)
           /\ IF subscription.id = 0
              THEN dev_patch' = [dev_patch EXCEPT !.call[h].pc = "alert"]
              ELSE dev_patch' =
                     [dev_patch EXCEPT
                         !.call[h].pc = "handler",
                         !.call[h].original_subscription =
                             dev_patch.call[h].db_user.subscription,
                         !.call[h].original_uuid = user_uuid,
                         !.call[h].db_user =
                             [subscription |-> subscription.id,
                              remnawave_uuid |-> effective_uuid]]
    /\ UNCHANGED <<besideRows, panelVars, contestVars, tariffVars, scan,
                   push, ui>>

\* the return after the alert, through the finally of the monthly wrapper
DeviceAlertReturns(h) ==
    /\ dev_patch.call[h].pc = "alert"
    /\ dev_patch' = [RestoreDevicesModule(dev_patch, h) EXCEPT
                        !.call[h].pc = "idle", !.call[h].result = "alert"]
    /\ UNCHANGED <<subscriptions, besideRows, panelVars, contestVars,
                   tariffVars, scan, push, ui>>

\* the wrapped handler returns or raises: the finally of
\* _run_with_standard_subscription, then the finally of the monthly wrapper
DeviceHandlerReturns(h) ==
    /\ dev_patch.call[h].pc = "handler"
    /\ \E result \in {"returned", "raised"} :
          dev_patch' =
              [RestoreDevicesModule(dev_patch, h) EXCEPT
                  !.call[h].pc = "idle", !.call[h].result = result,
                  !.call[h].db_user =
                      [subscription |->
                           dev_patch.call[h].original_subscription,
                       remnawave_uuid |-> dev_patch.call[h].original_uuid]]
    /\ UNCHANGED <<subscriptions, besideRows, panelVars, contestVars,
                   tariffVars, scan, push, ui>>

\* two users with and without a standard row
InitDevices ==
    /\ InitCommon
    /\ TariffIdle
    /\ PanelIdle
    /\ ContestIdle
    /\ purchases = [c \in ConfirmCalls |-> 0]
    /\ balance = 0
    /\ promo_offer = 0
    /\ promo_group \in PromoGroups
    /\ gate = "ok"
    /\ active = {}
    /\ settings \in {s \in SettingsProfiles :
                        s.TRIAL_ADD_REMAINING_DAYS_TO_PAID}
    /\ subscriptions \in
          {{StdPaidActive},
           {StdPaidActive,
            [StdPaidActive EXCEPT !.id = 3, !.user_id = "u2",
                                  !.remnawave_uuid = None]}}

NextDevices ==
    \E h \in DeviceCalls :
        \/ DeviceHandlerEnters(h)
        \/ DeviceLookupReturns(h)
        \/ DeviceAlertReturns(h)
        \/ DeviceHandlerReturns(h)

SpecDevices == InitDevices /\ [][NextDevices]_vars

(***************************************************************************)
(* The purchase wizard: start, tariff, period, traffic, devices, summary   *)
(* and the back button.  One user; aiogram handles the user's updates one  *)
(* after the other, so each handler is one step.                           *)
(***************************************************************************)
\* the purchase flow's variables the wizard leaves alone
besideWizard == <<now, balance, promo_offer, promo_group, gate, settings, next_id, transactions, cart, checkout_draft, cp, active, purchases, squad_users, crud>>

\* _get_tariff_squads over the configured squad lists
_get_tariff_squads(tariff_code, st) ==
    IF tariff_code = WHITE THEN st.WHITE_TARIFF_SQUADS
    ELSE st.STANDARD_TARIFF_SQUADS

\* [pkg for pkg in settings.get_traffic_packages() if pkg.get("enabled")]
available_packages(st) == st.traffic_packages

\* data.get("tariff_code") and data.get("spiderman_extend_mode")
DraftTariff(data) == data.tariff_code
ExtendMode(data) ==
    "spiderman_extend_mode" \in DOMAIN data /\ data.spiderman_extend_mode

\* the data dict of the wizard; None is written Unset for the numbers
Draft(tariff, period, countries, devices, traffic, extend) ==
    [tariff_code |-> tariff, period_days |-> period, countries |-> countries,
     devices |-> devices, total_price |-> 0, traffic_gb |-> traffic,
     months_in_period |-> Unset, spiderman_extend_mode |-> extend]

\* the callback a handler answered and the message it left on the screen
Shown(screen, alert, handler, arg) ==
    [screen |-> screen, alert |-> alert, handler |-> handler, arg |-> arg,
     tick |-> 1 - ui.tick]

\* initial_devices of start_subscription_purchase and select_tariff
InitialDevices(st, subscription) ==
    IF st.devices_selection_enabled
    THEN IF subscription.id # 0
         THEN Max(DEFAULT_DEVICE_LIMIT, subscription.device_limit)
         ELSE DEFAULT_DEVICE_LIMIT
    ELSE IF st.forced_disabled_limit = Unset THEN DEFAULT_DEVICE_LIMIT
         ELSE st.forced_disabled_limit

\* start_subscription_purchase; with extend, handle_extend_subscription,
\* which marks the draft it left
StartSubscriptionPurchase(extend) ==
    /\ fsm_data' = Draft(None, Unset, {}, InitialDevices(settings, NoRow),
                         Unset, extend)
    /\ fsm_state' = "selecting_period"
    /\ ui' = Shown("tariff", None,
                   IF extend THEN "handle_extend_subscription"
                   ELSE "start_subscription_purchase", None)
    /\ UNCHANGED <<subscriptions, besideWizard, panelVars, contestVars,
                   tariffVars, scan, push, dev_patch>>

\* present_subscription_summary: the summary of the draft, or the failure
\* of _prepare_subscription_summary
PresentSummary(data, st, pg, offer) ==
    LET d == _prepare_subscription_summary(data.tariff_code,
                 IF data.period_days = Unset THEN 0 ELSE data.period_days,
                 IF data.traffic_gb = Unset THEN 0 ELSE data.traffic_gb,
                 data.devices, st, pg, offer)
        missing == \/ data.period_days = Unset
                   \/ data.tariff_code = STANDARD /\ data.period_days = 0
    IN  IF missing \/ ~SummaryIsValid(d)
        THEN [ok |-> FALSE, data |-> data]
        ELSE [ok |-> TRUE,
              data |-> [data EXCEPT !.total_price = d.total_price,
                                    !.months_in_period = d.months_in_period]]

\* select_tariff, registered for tariff_standard and tariff_white in every
\* state
SelectTariff(raw_value) ==
    /\ ui.screen # None
    /\ LET tariff_code == raw_value
           extend_mode == ExtendMode(fsm_data)
           squads == _get_tariff_squads(tariff_code, settings)
           subscription == get_subscription_by_user_id(subscriptions, UserId,
                                                       tariff_code, now)
       IN  IF squads = {}
           THEN /\ ui' = Shown(ui.screen, "squads_not_configured",
                               "select_tariff", raw_value)
                /\ UNCHANGED <<fsm_data, fsm_state, subscriptions>>
           ELSE /\ subscriptions' =
                      TableAfterGet(subscriptions, UserId, tariff_code, now)
                /\ IF extend_mode /\ tariff_code = STANDARD
                   THEN IF subscription.id = 0
                        THEN /\ ui' = Shown(ui.screen, "standard_not_found",
                                            "select_tariff", raw_value)
                             /\ UNCHANGED <<fsm_data, fsm_state>>
                        ELSE \E period_days \in {30, 90} :
                               LET devices_selected ==
                                       IF ~settings.devices_selection_enabled
                                          /\ settings.forced_disabled_limit
                                                 # Unset
                                       THEN settings.forced_disabled_limit
                                       ELSE subscription.device_limit
                                   countries ==
                                       IF subscription.connected_squads = {}
                                       THEN squads
                                       ELSE subscription.connected_squads
                                   data == Draft(tariff_code, period_days,
                                               countries, devices_selected,
                                               0, TRUE)
                                   s == PresentSummary(data, settings,
                                            promo_group, promo_offer)
                               IN  /\ fsm_data' = s.data
                                   /\ fsm_state' =
                                         IF s.ok THEN "confirming_purchase"
                                         ELSE fsm_state
                                   /\ ui' = Shown(IF s.ok THEN "summary"
                                                  ELSE ui.screen,
                                                  IF s.ok THEN None
                                                  ELSE "summary_failed",
                                                  "select_tariff", raw_value)
                   ELSE LET devices == InitialDevices(settings, subscription)
                        IN  IF tariff_code = WHITE
                            THEN /\ fsm_data' =
                                       [Draft(WHITE, 0, squads, 0, Unset,
                                              FALSE)
                                           EXCEPT !.months_in_period = 1]
                                 /\ IF available_packages(settings) = {}
                                    THEN /\ fsm_state' = fsm_state
                                         /\ ui' = Shown(ui.screen,
                                                    "packages_not_configured",
                                                    "select_tariff", raw_value)
                                    ELSE /\ fsm_state' = "selecting_traffic"
                                         /\ ui' = Shown("traffic", None,
                                                    "select_tariff", raw_value)
                            ELSE /\ fsm_data' = Draft(STANDARD, Unset, squads,
                                                      devices, 0, FALSE)
                                 /\ fsm_state' = "selecting_period"
                                 /\ ui' = Shown("period", None,
                                                "select_tariff", raw_value)
    /\ UNCHANGED <<besideWizard, panelVars, contestVars, tariffVars, scan,
                   push, dev_patch>>

\* select_period for a draft with a tariff
SelectPeriod(period_days) ==
    /\ fsm_state = "selecting_period"
    /\ DraftTariff(fsm_data) # None
    /\ LET data == [fsm_data EXCEPT !.period_days = period_days,
                                    !.total_price = PERIOD_PRICES[period_days]]
       IN  IF DraftTariff(fsm_data) = WHITE
           THEN IF available_packages(settings) = {}
                THEN /\ ui' = Shown(ui.screen, "packages_not_configured",
                                    "select_period", ToString(period_days))
                     /\ UNCHANGED <<fsm_data, fsm_state>>
                ELSE /\ fsm_data' = data
                     /\ fsm_state' = "selecting_traffic"
                     /\ ui' = Shown("traffic", None, "select_period",
                                    ToString(period_days))
           ELSE LET std == [data EXCEPT
                               !.traffic_gb = 0,
                               !.countries =
                                   IF @ = {}
                                   THEN _get_tariff_squads(STANDARD, settings)
                                   ELSE @]
                    s == PresentSummary(std, settings, promo_group,
                                        promo_offer)
                IN  IF settings.devices_selection_enabled
                    THEN /\ fsm_data' = std
                         /\ fsm_state' = "selecting_devices"
                         /\ ui' = Shown("devices", None, "select_period",
                                        ToString(period_days))
                    ELSE /\ fsm_data' = s.data
                         /\ fsm_state' = IF s.ok THEN "confirming_purchase"
                                         ELSE fsm_state
                         /\ ui' = Shown(IF s.ok THEN "summary" ELSE ui.screen,
                                        IF s.ok THEN None
                                        ELSE "summary_failed",
                                        "select_period",
                                        ToString(period_days))
    /\ UNCHANGED <<subscriptions, besideWizard, panelVars, contestVars,
                   tariffVars, scan, push, dev_patch>>

\* select_traffic for a white draft
SelectTraffic(traffic_gb) ==
    /\ fsm_state = "selecting_traffic"
    /\ DraftTariff(fsm_data) = WHITE
    /\ traffic_gb \in available_packages(settings)
    /\ LET data == [fsm_data EXCEPT
                       !.traffic_gb = traffic_gb,
                       !.total_price = @ + TrafficPrice[traffic_gb],
                       !.countries =
                           IF @ = {} THEN _get_tariff_squads(WHITE, settings)
                           ELSE @]
           s == PresentSummary(data, settings, promo_group, promo_offer)
       IN  /\ fsm_data' = s.data
           /\ fsm_state' = IF s.ok THEN "confirming_purchase" ELSE fsm_state
           /\ ui' = Shown(IF s.ok THEN "summary" ELSE ui.screen,
                          IF s.ok THEN None ELSE "summary_failed",
                          "select_traffic", ToString(traffic_gb))
    /\ UNCHANGED <<subscriptions, besideWizard, panelVars, contestVars,
                   tariffVars, scan, push, dev_patch>>

\* the devices step of the standard flow: the chosen count, then the summary
DevicesContinue(devices) ==
    /\ fsm_state = "selecting_devices"
    /\ LET s == PresentSummary([fsm_data EXCEPT !.devices = devices],
                               settings, promo_group, promo_offer)
       IN  /\ fsm_data' = s.data
           /\ fsm_state' = IF s.ok THEN "confirming_purchase" ELSE fsm_state
           /\ ui' = Shown(IF s.ok THEN "summary" ELSE ui.screen,
                          IF s.ok THEN None ELSE "summary_failed",
                          "devices_continue", ToString(devices))
    /\ UNCHANGED <<subscriptions, besideWizard, panelVars, contestVars,
                   tariffVars, scan, push, dev_patch>>

\* a back handler that answers the period step with the period selection
BackTarget_PeriodAgain(current_state, tariff_code, st) ==
    IF current_state = "confirming_purchase"
    THEN IF tariff_code = WHITE
         THEN [state |-> "selecting_traffic", screen |-> "traffic"]
         ELSE IF st.devices_selection_enabled
         THEN [state |-> "selecting_devices", screen |-> "devices"]
         ELSE [state |-> "selecting_period", screen |-> "period"]
    ELSE IF current_state \in {"selecting_period", "selecting_traffic", "selecting_devices"}
    THEN [state |-> "selecting_period", screen |-> "period"]
    ELSE [state |-> None, screen |-> "main_menu"]

\* the state handle_subscription_config_back leaves and the screen it shows
BackTarget(current_state, tariff_code, st) ==
    IF current_state = "selecting_period"
    THEN [state |-> "selecting_period", screen |-> "tariff"]
    ELSE IF current_state = "selecting_traffic"
    THEN IF tariff_code = WHITE
         THEN [state |-> "selecting_period", screen |-> "tariff"]
         ELSE [state |-> "selecting_period", screen |-> "period"]
    ELSE IF current_state = "selecting_devices"
    THEN IF tariff_code = WHITE
         THEN [state |-> "selecting_traffic", screen |-> "traffic"]
         ELSE [state |-> "selecting_period", screen |-> "period"]
    ELSE IF current_state = "confirming_purchase"
    THEN IF tariff_code = WHITE
         THEN [state |-> "selecting_traffic", screen |-> "traffic"]
         ELSE IF st.devices_selection_enabled
         THEN [state |-> "selecting_devices", screen |-> "devices"]
         ELSE [state |-> "selecting_period", screen |-> "period"]
    ELSE [state |-> None, screen |-> "main_menu"]

\* handle_subscription_config_back for an extend-mode draft or a draft with
\* a tariff
HandleSubscriptionConfigBack ==
    /\ ui.screen # None
    /\ ExtendMode(fsm_data) \/ DraftTariff(fsm_data) # None
    /\ IF ExtendMode(fsm_data)
       THEN /\ fsm_state' = None
            /\ fsm_data' = EmptyData
            /\ ui' = Shown("subscription_info", None,
                           "handle_subscription_config_back", None)
       ELSE LET target == BackTarget(fsm_state, DraftTariff(fsm_data),
                                     settings)
            IN  /\ fsm_state' = target.state
                /\ fsm_data' = IF target.screen = "main_menu" THEN EmptyData
                               ELSE fsm_data
                /\ ui' = Shown(target.screen, None,
                               "handle_subscription_config_back", None)
    /\ UNCHANGED <<subscriptions, besideWizard, panelVars, contestVars,
                   tariffVars, scan, push, dev_patch>>

\* the installations the wizard runs on: squads and traffic packages
\* configured or not, device selection enabled or disabled
WizardSettings ==
    {[TRIAL_ADD_REMAINING_DAYS_TO_PAID |-> TRUE,
      devices_selection_enabled |-> d[1], forced_disabled_limit |-> d[2],
      RESET_TRAFFIC_ON_PAYMENT |-> FALSE, CONNECT_BUTTON_MODE |-> "guide",
      MINIAPP_CUSTOM_URL |-> None,
      STANDARD_TARIFF_SQUADS |-> std, WHITE_TARIFF_SQUADS |-> white,
      traffic_packages |-> packages] :
        d \in {<<TRUE, Unset>>, <<FALSE, 3>>},
        std \in {{}, {"sq_std"}}, white \in {{}, {"sq_white"}},
        packages \in {{}, {0, 20}}}

InitWizard ==
    /\ InitCommon
    /\ TariffIdle
    /\ PanelIdle
    /\ ContestIdle
    /\ purchases = [c \in ConfirmCalls |-> 0]
    /\ balance = 100000
    /\ promo_offer = 0
    /\ promo_group \in PromoGroups
    /\ gate = "ok"
    /\ active = {}
    /\ settings \in WizardSettings
    /\ subscriptions \in {{}, {StdPaidActive, WhiteLimited}}

NextWizard ==
    \/ \E extend \in BOOLEAN : StartSubscriptionPurchase(extend)
    \/ \E raw_value \in Tariffs : SelectTariff(raw_value)
    \/ \E period_days \in {30, 90} : SelectPeriod(period_days)
    \/ \E traffic_gb \in {0, 20} : SelectTraffic(traffic_gb)
    \/ \E devices \in {DEFAULT_DEVICE_LIMIT, DEFAULT_DEVICE_LIMIT + 2} : DevicesContinue(devices)
    \/ HandleSubscriptionConfigBack

SpecWizard == InitWizard /\ [][NextWizard]_vars


(***************************************************************************)
(* tariff_context: the ambient tariff of a request.                        *)
(***************************************************************************)
Whitespace == {" ", "\t"}
WhiteWord == <<"w", "h", "i", "t", "e">>
StandardWord == <<"s", "t", "a", "n", "d", "a", "r", "d">>
UpperToLower ==
    ("W" :> "w") @@ ("H" :> "h") @@ ("I" :> "i") @@ ("T" :> "t")
    @@ ("E" :> "e") @@ ("S" :> "s") @@ ("A" :> "a") @@ ("N" :> "n")
    @@ ("D" :> "d") @@ ("R" :> "r") @@ ("X" :> "x")

\* str.lower
lower(s) ==
    [i \in 1..Len(s) |->
        IF s[i] \in DOMAIN UpperToLower THEN UpperToLower[s[i]] ELSE s[i]]

\* str.strip: without the whitespace at both ends
RECURSIVE lstrip(_)
lstrip(s) ==
    IF s # <<>> /\ Head(s) \in Whitespace THEN lstrip(Tail(s)) ELSE s

RECURSIVE rstrip(_)
rstrip(s) ==
    IF s # <<>> /\ s[Len(s)] \in Whitespace
    THEN rstrip(SubSeq(s, 1, Len(s) - 1)) ELSE s

\* a normalisation that keeps the whitespace
strip_Kept(s) == s

strip(s) == rstrip(lstrip(s))

\* normalize_tariff_code, current being get_current_tariff_code()
normalize_tariff_code(value, current) ==
    IF value.none \/ value.chars = <<>> THEN current
    ELSE LET normalized == lower(strip(value.chars))
         IN  IF normalized \in {WhiteWord, <<"w">>} THEN WHITE
             ELSE IF normalized \in {StandardWord, <<"s">>} THEN STANDARD
             ELSE DEFAULT_TARIFF_CODE

\* the context an asyncio task of a handler reads and writes
\* _CURRENT_TARIFF_CODE in: one module-wide value
ContextOf_Shared(task) == "h1"

\* each task runs in its own copy of the context
ContextOf(task) == task

\* get_current_tariff_code
get_current_tariff_code(task) == tariff_ctx.ambient[ContextOf(task)]

\* a reset that falls back to the default
ResetValue_Default(token) == DEFAULT_TARIFF_CODE

\* _CURRENT_TARIFF_CODE.reset(token): the value before the set of the token
ResetValue(token) == token.old_value

\* the values handlers pass to use_tariff_code and normalize_tariff_code
HandlerValues ==
    {PyNone, Str(<<"w">>), Str(<<"s">>), Str(<<" ", "W">>), Str(<<"x">>)}

\* the values normalize_tariff_code is probed with: every string of up to
\* MaxLen of the characters below, and the spellings of the two words
ProbeAlphabet == {" ", "\t", "w", "W", "s", "x"}
Strings(n) == UNION {[1..k -> ProbeAlphabet] : k \in 0..n}
Upper(s) ==
    [i \in 1..Len(s) |->
        CHOOSE c \in DOMAIN UpperToLower : UpperToLower[c] = s[i]]
Capitalized(s) == <<Upper(s)[1]>> \o Tail(s)
Padded(s) == {s, <<" ">> \o s, s \o <<"\t">>, <<" ">> \o s \o <<" ">>}
ProbeValues ==
    {PyNone}
    \cup {Str(s) : s \in Strings(MaxLen)}
    \cup {Str(p) : p \in UNION {Padded(v) :
              v \in {WhiteWord, Upper(WhiteWord), Capitalized(WhiteWord),
                     StandardWord, Upper(StandardWord),
                     Capitalized(StandardWord),
                     SubSeq(WhiteWord, 1, 4), WhiteWord \o <<"s">>,
                     <<"w", " ">> \o SubSeq(WhiteWord, 2, 5)}}}

\* the tariff set by the innermost open use_tariff_code block of a task
InnermostTariff(task) ==
    IF tariff_ctx.stack[task] = <<>> THEN DEFAULT_TARIFF_CODE
    ELSE tariff_ctx.stack[task][Len(tariff_ctx.stack[task])].set_value

\* normalize_tariff_code(value) called by a handler
NormalizeTariffCode(task, value) ==
    /\ tariff_ctx' = [tariff_ctx EXCEPT !.probe =
                 [task |-> task, value |-> value,
                  ambient |-> get_current_tariff_code(task),
                  own |-> InnermostTariff(task),
                  other_white |-> \E h \in Handlers \ {task} :
                                     /\ tariff_ctx.stack[h] # <<>>
                                     /\ InnermostTariff(h) = WHITE,
                  result |-> normalize_tariff_code(
                                 value, get_current_tariff_code(task))]]
    /\ UNCHANGED <<purchaseVars, contestVars, panelVars, syncVars>>

\* use_tariff_code(value): the entry of the block
EnterUseTariffCode(task, value) ==
    /\ Len(tariff_ctx.stack[task]) < MaxDepth
    /\ LET current == get_current_tariff_code(task)
           new_value == normalize_tariff_code(value, current)
       IN  tariff_ctx' = [tariff_ctx EXCEPT
                     !.ambient[ContextOf(task)] = new_value,
                     !.stack[task] = Append(@, [old_value |-> current,
                                                set_value |-> new_value])]
    /\ UNCHANGED <<purchaseVars, contestVars, panelVars, syncVars>>

\* use_tariff_code: the finally of the block, reached when the block ends
\* and when it raises
ExitUseTariffCode(task, raised) ==
    /\ tariff_ctx.stack[task] # <<>>
    /\ LET token == tariff_ctx.stack[task][Len(tariff_ctx.stack[task])]
       IN  tariff_ctx' = [tariff_ctx EXCEPT
                     !.ambient[ContextOf(task)] = ResetValue(token),
                     !.stack[task] = SubSeq(@, 1, Len(@) - 1),
                     !.exit = [task |-> task, raised |-> raised]]
    /\ UNCHANGED <<purchaseVars, contestVars, panelVars, syncVars>>

\* handlers that wrap their work in use_tariff_code, to any depth
NextTariff ==
    \E task \in Handlers :
        \/ \E value \in HandlerValues : NormalizeTariffCode(task, value)
        \/ \E value \in HandlerValues : EnterUseTariffCode(task, value)
        \/ \E raised \in BOOLEAN : ExitUseTariffCode(task, raised)

InitTariff ==
    /\ InitContest
    /\ round.kind = "button" /\ round.max_winners = 1

SpecTariff == InitTariff /\ [][NextTariff]_vars

\* normalize_tariff_code applied to every probe value, outside a block and
\* inside use_tariff_code("white")
InitNormalize ==
    /\ InitCommon
    /\ PanelIdle
    /\ ContestIdle
    /\ purchases = [c \in ConfirmCalls |-> 0]
    /\ balance = 0
    /\ promo_offer = 0
    /\ promo_group \in PromoGroups
    /\ gate = "ok"
    /\ settings = [TRIAL_ADD_REMAINING_DAYS_TO_PAID |-> TRUE,
                   devices_selection_enabled |-> TRUE,
                   forced_disabled_limit |-> Unset,
                   RESET_TRAFFIC_ON_PAYMENT |-> FALSE, CONNECT_BUTTON_MODE |-> "guide", MINIAPP_CUSTOM_URL |-> None]
    /\ subscriptions = {}
    /\ active = {}
    /\ \E inside \in {STANDARD, WHITE} :
          tariff_ctx = [ambient |-> [h \in Handlers |->
                                IF h = "h1" THEN inside
                                ELSE DEFAULT_TARIFF_CODE],
                stack |-> [h \in Handlers |->
                              IF h = "h1" /\ inside = WHITE
                              THEN <<[old_value |-> DEFAULT_TARIFF_CODE,
                                      set_value |-> WHITE]>>
                              ELSE <<>>],
                probe |-> NoProbe, exit |-> NoExit]

NextNormalize ==
    \E value \in ProbeValues : NormalizeTariffCode("h1", value)

SpecNormalize == InitNormalize /\ [][NextNormalize]_vars

(***************************************************************************)
(* Properties of confirm_purchase.                                         *)
(***************************************************************************)
\* the row of the user for a tariff (NoRow when there is none)
RowFor(rows, tariff) ==
    IF RowsOf(rows, UserId, tariff) = {} THEN NoRow
    ELSE Latest(RowsOf(rows, UserId, tariff))

\* the step of call c that commits the merge into an existing row
MergesExisting(c) ==
    /\ cp[c].pc = "mutate"
    /\ cp'[c].pc = "servers"
    /\ cp[c].existing.id # 0

\* C2: an execution of confirm_purchase that took the balance and then met
\* an exception ends with the balance restored or with the subscription
\* active and holding the purchased entitlement.
C2_ChargedImpliesServed ==
    \A c \in ConfirmCalls :
        (cp[c].pc = "done" /\ cp[c].deducted > 0 /\ cp[c].raised)
            => \/ balance >= cp[c].balance_before
               \/ /\ cp[c].granted
                  /\ RowFor(subscriptions, cp[c].data.tariff_code).status
                         = "active"

\* C4: when confirm_purchase reaches its balance check with a balance below
\* the recomputed total, the balance, the Subscription rows and the ledger
\* stay as they are, the saved cart holds the draft under the user's id, and
\* the top-up offered is total - balance.
C4_InsufficientBalanceSavesCart ==
    [][\A c \in ConfirmCalls :
          LET total == RecomputePrice(cp[c].data, settings, promo_group,
                                      promo_offer).final_price
          IN  (/\ cp[c].pc = "price"
               /\ cp'[c].pc # "price"
               /\ ~PriceDrifted(total, cp[c].data.total_price)
               /\ balance < total)
              => /\ balance' = balance
                 /\ subscriptions' = subscriptions
                 /\ transactions' = transactions
                 /\ cart'.saved_cart
                 /\ cart'.user_id = UserId
                 /\ cart'.data = fsm_data
                 /\ cart'.missing_amount = total - balance
                 /\ cp'[c].topup = total - balance
                 /\ cp'[c].pc = "done"]_vars

C4_Witness ==
    /\ cp["c1"].result = "insufficient"
    /\ cart.saved_cart
    /\ cart.missing_amount > 0
    /\ cart.missing_amount = cp["c1"].final_price - balance

\* C5: a recomputed final_price further than max(500, 5% of final_price) from
\* the cached total aborts the confirmation with balance, Subscription rows
\* and ledger untouched; otherwise a deduction takes exactly the recomputed
\* final_price.
C5_DriftAbortsElseChargesRecomputed ==
    [][\A c \in ConfirmCalls :
          LET total == RecomputePrice(cp[c].data, settings, promo_group,
                                      promo_offer).final_price
              cached == cp[c].data.total_price
              allowed == IF 20 * PriceToleranceKopeks >= total
                         THEN PriceToleranceKopeks ELSE total \div 20
          IN  (cp[c].pc = "price" /\ cp'[c].pc # "price")
              => /\ (Abs(total - cached) > allowed)
                        => /\ cp'[c].pc = "done"
                           /\ cp'[c].result = "price_changed"
                           /\ balance' = balance
                           /\ subscriptions' = subscriptions
                           /\ transactions' = transactions
                 /\ (Abs(total - cached) <= allowed)
                        => cp'[c].result # "price_changed"
                 /\ balance' # balance => balance - balance' = total]_vars

C5_Witness ==
    /\ cp["c1"].deducted > 0
    /\ cp["c1"].balance_before - balance = cp["c1"].deducted
    /\ Abs(cp["c1"].deducted - cp["c1"].data.total_price) > PriceToleranceKopeks

\* C6: for a blacklisted or restricted user no step changes the balance, a
\* Subscription row, the ledger, the saved cart or the checkout draft.
C6_GateBeforeAnyWrite ==
    [][gate # "ok" =>
          /\ balance' = balance
          /\ subscriptions' = subscriptions
          /\ transactions' = transactions
          /\ cart' = cart
          /\ checkout_draft' = checkout_draft]_vars

C6_Witness ==
    /\ gate = "restricted"
    /\ fsm_data.tariff_code # None
    /\ cp["c1"].pc = "done"
    /\ cp["c1"].result = "restricted"

\* C7: converting an unexpired standard trial, confirm_purchase leaves the row
\* paid and active with end_date = now + period, plus the remaining trial
\* time exactly when TRIAL_ADD_REMAINING_DAYS_TO_PAID is enabled.
C7_TrialConversionEndDate ==
    [][\A c \in ConfirmCalls :
          LET ex == cp[c].existing
              t == cp[c].current_time
              after == RowFor(subscriptions', STANDARD)
          IN  (/\ MergesExisting(c)
               /\ cp[c].data.tariff_code = STANDARD
               /\ ex.is_trial /\ ex.status = "active" /\ ex.end_date > t)
              => /\ ~after.is_trial
                 /\ after.status = "active"
                 /\ after.end_date =
                        t + cp[c].data.period_days
                        + (IF settings.TRIAL_ADD_REMAINING_DAYS_TO_PAID
                           THEN ex.end_date - t ELSE 0)]_vars

\* C8: a committed purchase of N > 0 GB for a white row with limit L > 0 and
\* purchased traffic P leaves limit L + N, purchased P + N and the unlimited
\* end date.
C8_WhiteTopUpAccumulates ==
    [][\A c \in ConfirmCalls :
          LET before == RowFor(subscriptions, WHITE)
              after == RowFor(subscriptions', WHITE)
              n == cp[c].data.final_traffic_gb
          IN  (/\ MergesExisting(c)
               /\ cp[c].data.tariff_code = WHITE
               /\ before.traffic_limit_gb > 0 /\ n > 0)
              => /\ after.traffic_limit_gb = before.traffic_limit_gb + n
                 /\ after.purchased_traffic_gb = before.purchased_traffic_gb + n
                 /\ after.end_date = WhiteUnlimitedEndDate]_vars

C8_Witness ==
    /\ cp["c1"].granted
    /\ cp["c1"].existing = WhiteLimited
    /\ cp["c1"].data.final_traffic_gb = 20
    /\ RowFor(subscriptions, WHITE).traffic_limit_gb = 70
    /\ RowFor(subscriptions, WHITE).purchased_traffic_gb = 30
    /\ RowFor(subscriptions, WHITE).end_date = WhiteUnlimitedEndDate

\* C9: a committed purchase of P days for an existing non-trial standard row
\* sets end_date = max(previous end_date, now) + P; end_date never moves
\* earlier and unexpired paid time is kept.
C9_ExtendsFromLaterOfEndAndNow ==
    [][\A c \in ConfirmCalls :
          LET before == RowFor(subscriptions, STANDARD)
              after == RowFor(subscriptions', STANDARD)
              t == cp[c].current_time
              P == cp[c].data.period_days
          IN  (/\ MergesExisting(c)
               /\ cp[c].data.tariff_code = STANDARD
               /\ ~before.is_trial)
              => /\ after.end_date = Max(before.end_date, t) + P
                 /\ after.end_date >= before.end_date
                 /\ before.end_date > t
                        => after.end_date - before.end_date = P]_vars

C9_Witness ==
    /\ cp["c1"].granted
    /\ cp["c1"].existing.id # 0
    /\ ~cp["c1"].existing.is_trial
    /\ cp["c1"].existing.end_date > cp["c1"].current_time
    /\ cp["c1"].data.tariff_code = STANDARD
    /\ RowFor(subscriptions, STANDARD).end_date
           = cp["c1"].existing.end_date + cp["c1"].data.period_days

\* C10: an execution of confirm_purchase that took the balance has recorded
\* exactly one SUBSCRIPTION_PAYMENT Transaction, for the amount taken, and an
\* execution that took nothing has recorded none.
C10_OneLedgerRowPerDeduction ==
    \A c \in ConfirmCalls :
        cp[c].pc = "done" =>
            LET added == {i \in (cp[c].tx_before + 1)..Len(transactions) :
                             transactions[i].type = "SUBSCRIPTION_PAYMENT"}
            IN  IF cp[c].deducted > 0
                THEN /\ Cardinality(added) = 1
                     /\ \A i \in added :
                            transactions[i].amount_kopeks = cp[c].deducted
                ELSE added = {}


(***************************************************************************)
(* Properties of the subscription repository.                              *)
(***************************************************************************)
\* C1: at every moment the table holds at most one row per
\* (user_id, tariff_code); create_trial_subscription,
\* create_paid_subscription, create_pending_subscription,
\* update_or_create_subscription and confirm_purchase, also when two calls
\* that both saw no row interleave, update the pair's row or are rejected
\* and never add a second row
C1_OneRowPerUserAndTariff ==
    /\ \A r, q \in subscriptions :
          (r.user_id = q.user_id /\ r.tariff_code = q.tariff_code) => r = q
    /\ \A k \in CrudCallers :
          crud[k].result \in {None, "created", "updated", "ignored",
                              "rejected"}

\* create_pending_subscription and confirm_purchase both saw no row for the
\* pair; confirm_purchase inserted its row first and the INSERT of
\* create_pending_subscription was rejected
C1_Witness ==
    \E k \in CrudCallers, c \in ConfirmCalls :
        /\ crud[k].op = "create_pending"
        /\ crud[k].result = "rejected"
        /\ crud[k].tariff_code = cp[c].data.tariff_code
        /\ cp[c].existing.id = 0
        /\ cp[c].granted
        /\ Cardinality(RowsOf(subscriptions, UserId, crud[k].tariff_code)) = 1


(***************************************************************************)
(* Properties of the contest attempts.                                     *)
(***************************************************************************)
RightAnswers == {u \in ContestUsers : attempts[u].answer = "right"}
Winners == {u \in ContestUsers : attempts[u].is_winner}
AttemptsAtRest == \A u \in ContestUsers : ca[u].pc = "idle"

\* C3: for a round with max_winners = N, under any interleaving of
\* process_button_attempt / process_text_attempt calls with right answers
\* from M >= N distinct users, exactly N attempts end with is_winner = true,
\* and winners_count <= max_winners in every reachable state
C3_WinnerCapExact ==
    /\ round.winners_count <= round.max_winners
    /\ Cardinality(Winners) <= round.max_winners
    /\ (AttemptsAtRest /\ Cardinality(RightAnswers) >= round.max_winners)
          => Cardinality(Winners) = round.max_winners

\* more right answers than slots have been recorded, and a caller with a
\* right answer found the round full after waiting for the row lock
C3_Witness ==
    /\ AttemptsAtRest
    /\ Cardinality(RightAnswers) > round.max_winners
    /\ round.winners_count = round.max_winners
    /\ \E u \in RightAnswers : ~attempts[u].is_winner

(***************************************************************************)
(* Properties of the promo offer.                                          *)
(***************************************************************************)
\* C11: the one-time promo offer is consumed only by a confirm_purchase that
\* ends as a successful purchase commit: an execution that consumed the
\* offer (promo_value > 0 at the deduction) never ends in the error branch,
\* and a failed deduction leaves the offer as it was
C11_PromoConsumedOnlyOnCommit ==
    \A c \in ConfirmCalls :
        /\ (cp[c].pc = "done" /\ cp[c].promo_value > 0)
              => cp[c].result # "error"
        /\ (cp[c].pc = "done" /\ cp[c].result = "deduct_failed")
              => cp[c].promo_value = 0

(***************************************************************************)
(* Properties of the panel synchronisation.                                *)
(***************************************************************************)
\* the persisted Subscription and User state a call of the panel
\* synchronisation found
PersistedBeforeCall ==
    /\ subscriptions = sync.before.rows
    /\ user_row = sync.before.user_row
    /\ links = sync.before.links

\* C12: when the panel API raises, or any exception occurs, inside
\* create_remnawave_user or update_remnawave_user, the call returns None and
\* the persisted Subscription and User state (remnawave_uuid, short UUID,
\* subscription links, connected_squads, status) is what it was before it.
C12_FailedCallChangesNothing ==
    (sync.op \in {"create", "update"} /\ sync.raised)
        => (sync.result = None /\ PersistedBeforeCall)


\* C13: two create_remnawave_user calls in succession on an unchanged
\* Subscription, the panel reachable, give the same panel UUID: the second
\* call issues a panel update and no second create, and the panel holds one
\* user for that subscription.
C13_SecondCreateIsAnUpdate ==
    (/\ sync.op = "create" /\ sync.reachable
     /\ sync.prev.op = "create" /\ sync.prev.tariff = sync.tariff
     /\ sync.prev.result # None)
        => /\ sync.result = sync.prev.result
           /\ sync.panel_op = "update"
           /\ {x.uuid : x \in panel} = {x.uuid : x \in sync.panel_before}
           /\ Cardinality({x \in panel : x.uuid = sync.result}) = 1
           /\ Cardinality(get_user_by_username(panel,
                  _build_remnawave_username(user_row.base_username,
                                            sync.tariff))) = 1

C13_Witness ==
    /\ sync.op = "create" /\ sync.reachable
    /\ sync.prev.op = "create" /\ sync.prev.tariff = sync.tariff
    /\ sync.prev.result # None
    /\ sync.panel_op = "update"
    /\ sync.tariff = WHITE

\* C14: no two Subscription rows hold the same non-null remnawave_uuid, and
\* after create_remnawave_user, update_remnawave_user and sync_users_to_panel
\* in any order the standard and the white row of a user never resolve to the
\* same panel user.
C14_RowsNeverShareAPanelUser ==
    /\ ~UuidViolation(subscriptions)
    /\ LET standard == _resolve_subscription_uuid(
                           SubscriptionOf(subscriptions, STANDARD), user_row,
                           STANDARD)
           white == _resolve_subscription_uuid(
                        SubscriptionOf(subscriptions, WHITE), user_row, WHITE)
       IN  standard # None => standard # white

\* an attempt call of the round that was evaluated: it got past the
\* already-played test to _atomic_winner_check
Evaluated(call) ==
    \/ ca[call].pc \in {"winner_check", "winner_commit", "record", "award"}
    \/ ca[call].result \in {"lost", "won", "error"}

\* C15: a contest round accepts at most one attempt per user: under any
\* interleaving of process_button_attempt (and create_pending_attempt) calls
\* for the same round and user at most one call is evaluated, and the others
\* are rejected with already_played.
C15_OneEvaluatedCallPerUser ==
    \A a, b \in DOMAIN ca :
        (a # b /\ PlayerOf(a) = PlayerOf(b) /\ round.kind = "button")
            => ~(Evaluated(a) /\ Evaluated(b))


(***************************************************************************)
(* Properties of the tariff context.                                       *)
(***************************************************************************)
\* a string that spells a word: the word in any letter case, with nothing
\* but whitespace before and after it
Spells(s, word) ==
    \E i, j \in 0..Len(s) :
        /\ i + Len(word) + j = Len(s)
        /\ \A k \in 1..i : s[k] \in Whitespace
        /\ \A k \in 1..j : s[Len(s) - k + 1] \in Whitespace
        /\ \A k \in 1..Len(word) :
              \/ s[i + k] = word[k]
              \/ /\ s[i + k] \in DOMAIN UpperToLower
                 /\ UpperToLower[s[i + k]] = word[k]

\* C16: normalize_tariff_code returns the ambient tariff for None and for
\* the empty string, "white" for "white" and "w" in any letter case and
\* with surrounding whitespace, "standard" for the standard aliases, and
\* "standard" for every other non-empty value whatever the ambient tariff.
C16_NormalizeTariffCode ==
    tariff_ctx.probe.task # None =>
        LET value == tariff_ctx.probe.value
            result == tariff_ctx.probe.result
        IN  IF value.none \/ value.chars = <<>>
            THEN result = tariff_ctx.probe.ambient
            ELSE IF Spells(value.chars, WhiteWord)
                    \/ Spells(value.chars, <<"w">>)
            THEN result = WHITE
            ELSE result = STANDARD

C16_Witness ==
    /\ tariff_ctx.probe.ambient = WHITE
    /\ tariff_ctx.probe.value = Str(<<" ", "x", "\t">>)
    /\ tariff_ctx.probe.result = STANDARD

\* C17: use_tariff_code(t) sets the ambient tariff to normalize(t) for the
\* block and restores the value of the entry afterwards, also when the block
\* raises and when blocks are nested: the ambient tariff of a task is always
\* the one its innermost open block set, or the default outside every block.
C17_ScopedOverrideRestores ==
    \A task \in Handlers :
        /\ get_current_tariff_code(task) = InnermostTariff(task)
        /\ \A k \in 1..Len(tariff_ctx.stack[task]) :
              tariff_ctx.stack[task][k].old_value =
                  IF k = 1 THEN DEFAULT_TARIFF_CODE
                  ELSE tariff_ctx.stack[task][k - 1].set_value

C17_Witness ==
    /\ tariff_ctx.exit.task = "h1" /\ tariff_ctx.exit.raised
    /\ Len(tariff_ctx.stack["h1"]) = 1
    /\ tariff_ctx.stack["h1"][1].set_value = WHITE
    /\ get_current_tariff_code("h1") = WHITE

\* C18: the ambient tariff is isolated per concurrent request: while one
\* handler is inside use_tariff_code("white"), suspended at an await,
\* normalize_tariff_code(None) in another handler resolves to that
\* handler's own ambient value.
C18_AmbientTariffPerRequest ==
    (tariff_ctx.probe.task # None /\ tariff_ctx.probe.value.none)
        => tariff_ctx.probe.result = tariff_ctx.probe.own

C18_Witness ==
    /\ tariff_ctx.probe.task = "h2" /\ tariff_ctx.probe.value.none
    /\ tariff_ctx.probe.other_white
    /\ tariff_ctx.probe.own = STANDARD
    /\ tariff_ctx.probe.result = STANDARD


(***************************************************************************)
(* Properties of the pending subscription.                                 *)
(***************************************************************************)
\* C19: create_pending_subscription for a (user, tariff) that has a row: a
\* row that is active with its end_date in the future is returned with every
\* field unchanged; any other row is rewritten in place to pending (is_trial
\* false, new dates, limits and squads, traffic_used_gb 0) and no row is
\* inserted.
C19_CreatePendingOverExistingRow ==
    [][\A k \in CrudCallers :
          (/\ crud[k].pc = "pending_write" /\ crud'[k].pc = "idle"
           /\ crud[k].seen.id # 0)
             => LET seen == crud[k].seen
                    t == crud[k].current_time
                IN  IF seen.status = "active" /\ seen.end_date > t
                    THEN /\ subscriptions' = subscriptions
                         /\ crud'[k].result = "ignored"
                    ELSE /\ {q.id : q \in subscriptions'}
                               = {q.id : q \in subscriptions}
                         /\ \A q \in subscriptions' :
                               IF q.id # seen.id THEN q \in subscriptions
                               ELSE /\ q.status = "pending"
                                    /\ ~q.is_trial
                                    /\ q.start_date = t
                                    /\ q.end_date = t + 30
                                    /\ q.traffic_limit_gb = 0
                                    /\ q.device_limit = 1
                                    /\ q.connected_squads = {}
                                    /\ q.traffic_used_gb = 0
                                    /\ q.user_id = seen.user_id
                                    /\ q.tariff_code = seen.tariff_code]_vars

\* create_pending_subscription rewrote the expired trial row of the user in
\* place on day 1
C19_Witness ==
    \E k \in CrudCallers :
        /\ crud[k].op = "create_pending" /\ crud[k].result = "updated"
        /\ crud[k].current_time = 1
        /\ \E r \in subscriptions :
              /\ r.id = 1 /\ r.status = "pending" /\ r.start_date = 1
              /\ r.traffic_used_gb = 0 /\ ~r.is_trial
        /\ Cardinality(subscriptions) = 1

\* C20: activate_pending_subscription turns the pending row of the pair into
\* an active one; with period_days given its end_date becomes
\* max(start_date, now) + period_days; without a pending row it returns
\* None and changes no row.
C20_ActivatePending ==
    [][\A k \in CrudCallers :
          (/\ crud[k].pc = "idle" /\ crud'[k].op = "activate_pending"
           /\ crud'[k].ops = crud[k].ops + 1)
             => LET f == crud'[k]
                    pending == {r \in subscriptions :
                                   /\ r.user_id = UserId
                                   /\ r.tariff_code = f.tariff_code
                                   /\ r.status = "pending"}
                IN  IF pending = {}
                    THEN /\ f.result = "none"
                         /\ subscriptions' = subscriptions
                    ELSE /\ f.result = "activated"
                         /\ subscriptions' \ subscriptions # {}
                         /\ \A r \in subscriptions \ pending :
                               r \in subscriptions'
                         /\ \A r \in pending :
                               \E q \in subscriptions' :
                                  /\ q.id = r.id
                                  /\ q.status = "active"
                                  /\ f.period_days # Unset =>
                                        q.end_date =
                                            Max(r.start_date, now)
                                            + f.period_days]_vars

\* a row made pending on day 0 was activated for 30 days on day 1
C20_Witness ==
    \E k \in CrudCallers :
        /\ crud[k].op = "activate_pending" /\ crud[k].result = "activated"
        /\ crud[k].period_days = 30 /\ crud[k].current_time = 1
        /\ \E r \in subscriptions :
              /\ r.status = "active" /\ r.start_date = 1 /\ r.end_date = 31

(***************************************************************************)
(* Properties of validate_and_clean_subscription.                          *)
(***************************************************************************)
\* the row of the validated tariff before and after the call
ValidatedBefore == SubscriptionOf(sync.before.rows, sync.tariff)
ValidatedAfter == {r \in subscriptions : r.id = ValidatedBefore.id}

\* the panel UUID the validation resolves: for standard the User row's
\* UUID when it has one, the row's own UUID otherwise
ValidatedUuid ==
    IF sync.tariff = STANDARD /\ sync.before.user_row.remnawave_uuid # None
    THEN sync.before.user_row.remnawave_uuid
    ELSE ValidatedBefore.remnawave_uuid

\* C29: validate_and_clean_subscription: when the resolved panel UUID does
\* not resolve to a panel user, or resolves to one with a different Telegram
\* ID, or a short UUID is present without a UUID, then afterwards
\* remnawave_uuid, remnawave_short_uuid, the links and connected_squads of
\* the Subscription are empty, the row still exists and the result is True;
\* False is returned only after an exception, with the session rolled back.
C29_ValidateCleansBrokenIdentity ==
    sync.op = "validate" =>
        /\ (\/ /\ ValidatedUuid # None
               /\ \A x \in sync.panel_before :
                     x.uuid = ValidatedUuid => x.telegram_id # TelegramId
            \/ /\ ValidatedUuid = None
               /\ sync.before.links[ValidatedBefore.id].remnawave_short_uuid
                     # None)
              => /\ sync.result = "True"
                 /\ \E r \in ValidatedAfter :
                       /\ r.remnawave_uuid = None
                       /\ r.connected_squads = {}
                       /\ links[r.id] = NoLinks
        /\ sync.result = "False" => (sync.raised /\ PersistedBeforeCall)
        /\ Cardinality(subscriptions) = Cardinality(sync.before.rows)

\* the standard row was linked to a panel user of another Telegram ID and
\* came out cleaned
C29_Witness ==
    /\ sync.op = "validate" /\ sync.tariff = STANDARD /\ sync.reachable
    /\ \E x \in sync.panel_before :
          x.uuid = ValidatedUuid /\ x.telegram_id = "tg2"
    /\ sync.result = "True"
    /\ \E r \in ValidatedAfter : r.remnawave_uuid = None
    /\ user_row.remnawave_uuid = None


(***************************************************************************)
(* The status pushed to the panel.                                         *)
(***************************************************************************)
\* the row a create or update call was made for, as it was before the call
PushedRow == SubscriptionOf(sync.before.rows, sync.tariff)

\* C30: whenever create_remnawave_user or update_remnawave_user finds the
\* panel user and sends the panel update, the status sent is ACTIVE exactly
\* when the subscription's status is active and its end_date is after now,
\* and EXPIRED otherwise: an expired subscription is never pushed as ACTIVE.
C30_PanelStatusFollowsSubscription ==
    (sync.op \in {"create", "update"} /\ sync.panel_op = "update") =>
        \A x \in panel :
            x.uuid = sync.target =>
                x.status = IF PushedRow.status = "active"
                              /\ PushedRow.end_date > now
                           THEN "ACTIVE" ELSE "EXPIRED"


(***************************************************************************)
(* The panel retry of confirm_purchase.                                    *)
(***************************************************************************)
\* C28: in confirm_purchase, when the first panel create-or-update returns
\* failure, exactly one retry is made and that retry is issued with
\* reset_traffic disabled; whatever the retry returns, the purchase still
\* writes its ledger Transaction and is reported as completed.
C28_OneRetryWithoutTrafficReset ==
    \A c \in ConfirmCalls :
        /\ cp[c].pc = "ledger" =>
              \/ cp[c].panel_calls = 1 /\ cp[c].panel_ok
              \/ cp[c].panel_calls = 2
        /\ cp[c].panel_calls = 2 => ~cp[c].retry_reset_traffic
        /\ (cp[c].panel_calls = 2 /\ cp[c].pc = "cleanup") =>
              /\ cp[c].completed
              /\ Len(transactions) = cp[c].tx_before + 1


(***************************************************************************)
(* The price of the order summary.                                         *)
(***************************************************************************)
\* the summary holds a priced draft
Priced == fsm_state = "confirming_purchase" /\ fsm_data.tariff_code # None

PrizeRowBefore == SubscriptionOf(sync.before.rows, STANDARD)
PrizeRowsAfter == {r \in subscriptions : r.id = PrizeRowBefore.id}

\* the number a prize_value of decimal digits only spells
PlainDays ==
    IF Len(round.prize_value) = 1 THEN DigitValue[round.prize_value[1]]
    ELSE DigitValue[round.prize_value[1]] * 10
         + DigitValue[round.prize_value[2]]

\* the prize_value is a positive decimal number and nothing else
PlainPositive ==
    /\ round.prize_value # <<>>
    /\ Len(round.prize_value) <= 2
    /\ \A i \in DOMAIN round.prize_value : IsDigit(round.prize_value[i])
    /\ PlainDays > 0

\* C23: for a contest prize of type days with value d, _award_prize advances
\* the end_date of the winner's standard subscription by exactly d days, the
\* white subscription untouched, and then makes one panel sync attempt for
\* that subscription; a failing or raising sync neither undoes the extension
\* nor propagates to the caller.
C23_DaysPrizeExtendsStandard ==
    (ca["p1"].prizes = 1 /\ sync.before.rows # {}
     /\ \E r \in sync.before.rows : r.tariff_code = STANDARD) =>
        /\ sync.n = 1 /\ sync.op = "update" /\ sync.tariff = STANDARD
        /\ ca["p1"].calls = 1 => ca["p1"].result = "won"
        /\ PlainPositive =>
              \E r \in PrizeRowsAfter :
                  r.end_date = PrizeRowBefore.end_date + PlainDays
        /\ \A w \in sync.before.rows :
              w.tariff_code = WHITE => w \in subscriptions

\* a prize of "5" days was awarded and the panel sync after it failed
C23_Witness ==
    /\ ca["p1"].prizes = 1
    /\ round.prize_value = <<"5">>
    /\ sync.n = 1 /\ sync.raised /\ sync.result = None
    /\ \E r \in subscriptions :
          r.tariff_code = STANDARD
          /\ r.end_date = PrizeRowBefore.end_date + 5


(***************************************************************************)
(* The automatic purchase after a top-up.                                  *)
(***************************************************************************)
\* a call of the auto-purchase returns in this step
AutoReturns == cp["c1"].pc = "idle" /\ cp'["c1"].pc = "done"

\* C21: the auto-purchase after a top-up returns False when the user's
\* balance is below the saved cart's price, leaving the balance, every
\* Subscription row, the Transaction ledger and the saved cart unchanged; the
\* same holds when the auto-purchase configuration flag is disabled.
C21_AutoPurchaseDeclinesUntouched ==
    [][(AutoReturns
        /\ (\/ balance < cart.data.total_price
            \/ ~settings.AUTO_PURCHASE_AFTER_TOPUP_ENABLED))
       => /\ cp'["c1"].result = "False"
          /\ UNCHANGED <<balance, subscriptions, transactions, cart>>]_vars

\* the flag is on and the call declined for a balance short of the price
C21_Witness ==
    /\ cp["c1"].pc = "done" /\ cp["c1"].result = "False"
    /\ settings.AUTO_PURCHASE_AFTER_TOPUP_ENABLED
    /\ cp["c1"].balance_before > 0
    /\ cp["c1"].balance_before < cp["c1"].final_price
    /\ cart.saved_cart /\ transactions = <<>>


\* the row confirm_purchase commits for the draft and prior row of the call
ConfirmWouldLeave ==
    IF cp["c1"].existing.id # 0
    THEN MergePurchase(cp["c1"].existing, cp["c1"].data, settings,
                       cp["c1"].current_time)
    ELSE NewPurchaseRow(cp["c1"].sub_id, cp["c1"].data, settings,
                        cp["c1"].current_time)

\* C22: for the same white draft and the same prior state of the user's
\* white subscription, a successful auto-purchase leaves the Subscription
\* with the same traffic_limit_gb, purchased_traffic_gb, end_date, status,
\* is_trial, device_limit and connected_squads as a successful
\* confirm_purchase does, both when a white row exists and when it is created.
C22_AutoPurchaseMatchesConfirm ==
    (cp["c1"].pc = "done" /\ cp["c1"].result = "True"
     /\ cp["c1"].data.tariff_code = WHITE) =>
        \E r \in subscriptions :
            /\ r.id = cp["c1"].sub_id
            /\ r.traffic_limit_gb = ConfirmWouldLeave.traffic_limit_gb
            /\ r.purchased_traffic_gb = ConfirmWouldLeave.purchased_traffic_gb
            /\ r.end_date = ConfirmWouldLeave.end_date
            /\ r.status = ConfirmWouldLeave.status
            /\ r.is_trial = ConfirmWouldLeave.is_trial
            /\ r.device_limit = ConfirmWouldLeave.device_limit
            /\ r.connected_squads = ConfirmWouldLeave.connected_squads


\* the second pass of the last scan left row r disabled, without its panel
\* identity, and in the table
LeftDeactivated(r) ==
    \E q \in subscriptions :
        /\ q.id = r.id
        /\ q.status = "disabled"
        /\ q.remnawave_uuid = None
        /\ links[q.id] = NoLinks

\* C25: after a full synchronisation from the panel whose second pass ran,
\* every row the pass found whose (telegram_id, tariff) key is not among the
\* panel's users, or whose remnawave_uuid is not among their UUIDs, is in the
\* table with status disabled and without its panel identity; a "new_only"
\* or "update_only" synchronisation runs no second pass and deactivates no row
C25_FullSyncDeactivatesAbsent ==
    scan.pc = "done" =>
        /\ scan.sync_type = "all" /\ scan.cleanup.ran =>
              \A r \in scan.cleanup.rows :
                  \/ <<TelegramOf(r.user_id), r.tariff_code>>
                         \notin PanelKeys(scan.panel_users, settings)
                  \/ /\ r.remnawave_uuid # None
                     /\ r.remnawave_uuid \notin PanelUuidSet(scan.panel_users)
                  => LeftDeactivated(r)
        /\ scan.sync_type # "all" =>
              ~scan.cleanup.ran /\ scan.stats.deleted = 0


\* the exceptions the scan has met so far: of a panel user (raised, or logged
\* inside the creation), of a batch commit and of the commit after the loop
ScanFailures(s) ==
    s.failures.user + s.failures.swallowed + s.failures.batch
    + s.failures.final

\* C26: in sync_users_from_panel every step in which the processing of a
\* panel user or a commit fails adds to stats["errors"] and leaves the
\* session as the last commit stored it, and the loop ends only when every
\* panel user of the scan has been processed, whatever failed before
C26_FailureCountedScanContinues ==
    [][/\ ScanFailures(scan') > ScanFailures(scan) =>
             /\ scan'.stats.errors > scan.stats.errors
             /\ subscriptions' = scan.committed.rows
             /\ links' = scan.committed.links
       /\ scan.pc = "users" /\ scan'.pc # "users" =>
             /\ scan'.pc = "final_commit"
             /\ scan'.processed = 1..Len(scan.panel_users)]_vars


\* C27: while sync_users_to_panel runs the tasks of a batch, at most
\* concurrent_limit bodies of process_subscription are in flight; no
\* subscription's body runs twice, and when the batch is committed every
\* subscription of the batch that has a user has run its body exactly once
\* and has finished, and no subscription without a user has run
C27_BoundedFanOutThenCommit ==
    /\ Cardinality(InFlight(push)) <= concurrent_limit
    /\ push.peak <= concurrent_limit
    /\ \A id \in DOMAIN push.runs : push.runs[id] <= 1
    /\ push.commit.done =>
          /\ push.commit.unfinished = {}
          /\ \A id \in DOMAIN push.runs :
                push.runs[id] = IF id \in push.valid THEN 1 ELSE 0
          /\ InFlight(push) = {}

\* a batch of more valid subscriptions than the limit was committed after
\* the limit had been reached and a task had waited for the semaphore
C27_Witness ==
    /\ push.commit.done
    /\ Cardinality(push.valid) > concurrent_limit
    /\ push.peak = concurrent_limit


\* C33: of the confirm_purchase calls that read one session draft at most one
\* deducts the balance, at most one grants the entitlement and at most one
\* SUBSCRIPTION_PAYMENT Transaction is written
C33_OneDeductionPerDraft ==
    /\ Cardinality({c \in ConfirmCalls : cp[c].deducted > 0}) <= 1
    /\ Cardinality({c \in ConfirmCalls : cp[c].granted}) <= 1
    /\ Len(transactions) <= 1


\* C34: a confirm_purchase call that deducted the balance and committed the
\* subscription mutation returns only with the saved cart deleted, the
\* checkout draft cleared and the wizard state cleared
C34_CommittedPurchaseClearsCart ==
    [][\A c \in ConfirmCalls :
          /\ cp[c].pc # "done" /\ cp'[c].pc = "done"
          /\ cp'[c].deducted > 0 /\ cp'[c].granted
          => /\ cart' = NoCart
             /\ checkout_draft' = EmptyData
             /\ fsm_data' = EmptyData
             /\ fsm_state' = None]_vars


\* C35: when nothing changes between the summary and the confirmation, the
\* final_price confirm_purchase recomputes equals the total_price the summary
\* stored in the draft: the call never stops for a changed price, and what it
\* deducts is the total the summary showed
C35_ChargedPriceIsShownPrice ==
    \A c \in ConfirmCalls :
        /\ cp[c].result # "price_changed"
        /\ cp[c].final_price # 0 => cp[c].final_price = cp[c].data.total_price
        /\ cp[c].deducted > 0 => cp[c].deducted = cp[c].data.total_price

\* the step of call c in which the automatic purchase of the saved white cart
\* commits
AutoCommits(c) ==
    /\ cp[c].pc = "idle"
    /\ cp'[c].pc = "done"
    /\ cp'[c].result = "True"
    /\ cart.saved_cart

\* C36: a committed white purchase of a finite package (N > 0 GB), by
\* confirm_purchase or by the automatic purchase of the saved cart, leaves the
\* white row with traffic_limit_gb > 0 when the user bought no unlimited
\* package before; also when the row's limit was reset to 0 by the
\* deactivation pass of sync_users_from_panel or the row was created with
\* limit 0 from panel data.  No row of InitWhiteReset holds an unlimited
\* purchase, so the first purchase of a behaviour is one the claim covers.
C36_FinitePackageStaysFinite ==
    [][\A c \in ConfirmCalls :
          /\ (/\ cp[c].pc = "mutate" /\ cp'[c].pc = "servers"
              /\ Len(transactions) = 0
              /\ cp[c].data.tariff_code = WHITE
              /\ cp[c].data.final_traffic_gb > 0)
             => RowFor(subscriptions', WHITE).traffic_limit_gb > 0
          /\ (/\ AutoCommits(c) /\ cart.data.final_traffic_gb > 0
              /\ Len(transactions) = 0)
             => RowFor(subscriptions', WHITE).traffic_limit_gb > 0]_vars

\* C38: for every user the panel username built for the standard tariff
\* differs from the one built for the white tariff, also when the base
\* username already ends with the white suffix, so a lookup by username for
\* one tariff never returns the other tariff's panel user.
C38_TariffUsernamesDiffer ==
    _build_remnawave_username(user_row.base_username, STANDARD)
        # _build_remnawave_username(user_row.base_username, WHITE)

\* C39: every winner slot that is consumed is paid out: when an attempt is
\* recorded with is_winner = true and the prize is of days, _award_prize
\* mutates the winner's subscription (or balance); no execution consumes a
\* slot and grants nothing, for example when the winner holds no
\* subscription of the tariff the prize is for.
C39_WinnerSlotIsPaidOut ==
    [][\A u \in ContestUsers :
          (/\ ca[u].pc = "award" /\ ca'[u].result = "won"
           /\ attempts[PlayerOf(u)].is_winner
           /\ round.winners_count > 0)
          => subscriptions' # subscriptions \/ balance' # balance]_vars

\* C40: in every quiescent state (no attempt call in progress) the round's
\* winners_count equals the number of ContestAttempt rows of the round with
\* is_winner = true, also after a failure between the committed increment of
\* _atomic_winner_check and the write of the attempt record.
C40_WinnersCountMatchesRows ==
    (\A u \in DOMAIN ca : ca[u].pc = "idle")
        => round.winners_count
               = Cardinality({p \in ContestUsers : attempts[p].is_winner})

\* C37: after every confirm_change_devices / execute_change_devices handler
\* has finished, under any interleaving at the await points, the devices
\* module's calculate_prorated_price and get_remaining_months are the
\* original functions again and db_user.subscription and
\* db_user.remnawave_uuid hold their values of before the handler; and while
\* a handler is suspended, the wrapped handler of another call never runs
\* under its overrides.
C37_OverridesAreScoped ==
    /\ (\A h \in DeviceCalls : dev_patch.call[h].pc = "idle")
          => /\ dev_patch.calculate_prorated_price
                    = IdleDevicesPatch.calculate_prorated_price
             /\ dev_patch.get_remaining_months
                    = IdleDevicesPatch.get_remaining_months
             /\ \A h \in DeviceCalls :
                   dev_patch.call[h].db_user = dev_patch.call[h].before
    /\ \A h \in DeviceCalls :
          dev_patch.call[h].pc = "handler"
              => /\ dev_patch.calculate_prorated_price
                        \in {IdleDevicesPatch.calculate_prorated_price,
                             MonthlyPrice(h)}
                 /\ dev_patch.get_remaining_months
                        \in {IdleDevicesPatch.get_remaining_months,
                             OneMonth(h)}

\* the step in which the wizard handled a callback of the named handler
Handled(handler) == ui'.tick # ui.tick /\ ui'.handler = handler

\* a tariff was chosen whose squads are configured (not configured)
ChoseTariff(tariff_code) ==
    /\ Handled("select_tariff") /\ ui'.arg = tariff_code
    /\ _get_tariff_squads(tariff_code, settings) # {}
ChoseUnconfigured ==
    /\ Handled("select_tariff")
    /\ _get_tariff_squads(ui'.arg, settings) = {}

\* select_period left a standard draft at the devices step when device
\* selection is enabled and at the summary otherwise
StandardPeriodBranch ==
    (Handled("select_period") /\ DraftTariff(fsm_data) = STANDARD)
        => fsm_state' = IF settings.devices_selection_enabled
                        THEN "selecting_devices" ELSE "confirming_purchase"

\* a draft of the white tariff is never at the devices step
WhiteSkipsDevices ==
    DraftTariff(fsm_data') = WHITE => fsm_state' # "selecting_devices"

\* C31 as stated: choosing white sets period_days = 0 and devices = 0 and
\* moves straight to selecting_traffic, and a white flow never enters
\* selecting_devices; choosing standard sets traffic_gb = 0 and moves to
\* selecting_period, then to selecting_devices only when device selection is
\* enabled and otherwise directly to the summary; with no squads configured
\* for the tariff the wizard state and the draft are left unchanged.
C31_WizardBranching ==
    [][/\ ChoseTariff(WHITE)
             => /\ fsm_data'.period_days = 0 /\ fsm_data'.devices = 0
                /\ fsm_state' = "selecting_traffic"
       /\ WhiteSkipsDevices
       /\ ChoseTariff(STANDARD)
             => /\ fsm_data'.traffic_gb = 0
                /\ fsm_state' = "selecting_period"
       /\ StandardPeriodBranch
       /\ ChoseUnconfigured => UNCHANGED <<fsm_state, fsm_data>>]_vars

\* the wizard step the user is at: tariff selection (or outside the wizard)
\* 0, period 1, traffic 2, devices 3, summary 4; _show_tariff_selection and
\* _show_period_selection both leave the state selecting_period, so the
\* screen tells the first two apart
WizardStep(state, screen) ==
    IF state = "confirming_purchase" THEN 4
    ELSE IF state = "selecting_devices" THEN 3
    ELSE IF state = "selecting_traffic" THEN 2
    ELSE IF state = "selecting_period" /\ screen # "tariff" THEN 1
    ELSE 0

\* handle_subscription_config_back handled a tap for a draft with a tariff,
\* past the tariff selection
BackStep ==
    /\ Handled("handle_subscription_config_back")
    /\ DraftTariff(fsm_data) # None
    /\ WizardStep(fsm_state, ui.screen) > 0

\* the back step moved to a strictly earlier step, and a step 0 it reached
\* is the tariff-selection screen or the main menu
MovesBack ==
    /\ WizardStep(fsm_state', ui'.screen) < WizardStep(fsm_state, ui.screen)
    /\ WizardStep(fsm_state', ui'.screen) = 0
          => ui'.screen \in {"tariff", "main_menu"}

=============================================================================
